---------------------------- MODULE Spec2Model ----------------------------
(***************************************************************************)
(* The reactive core of the repository: Dep (observer/dep), Watcher        *)
(* (observer/watcher), the scheduler (observer/scheduler) and nextTick     *)
(* (util/next-tick).  JavaScript runs to completion on one thread, so the  *)
(* model keeps an explicit call stack of frames; every action is one step  *)
(* of the frame on top of the stack, or, when the stack is empty, the      *)
(* start of a new task (user code or a timer).                             *)
(***************************************************************************)
EXTENDS Integers, Sequences, FiniteSets, TLC

VARIABLES
  val,          \* defineReactive: the closure `val` of every tracked property
  subs,         \* Dep.subs of the property's dep, an array of watcher ids
  target,       \* Dep.target
  targetStack,  \* targetStack of dep.js
  watchers,     \* every Watcher constructed so far, indexed by its id
  renderW,      \* vm._watcher (0: not mounted)
  computedW,    \* vm._computedWatchers[key] (0: none)
  vmWatchers,   \* vm._watchers, an array of watcher ids
  isBeingDestroyed,  \* vm._isBeingDestroyed
  isMounted,    \* vm._isMounted
  updatedHook,  \* the name h of the model's vm.$options.updated, see Handlers
  queue, has, circular, waiting, flushing, index,   \* scheduler.js
  callbacks, pending, useMacroTask, timers,         \* next-tick.js
  stack,        \* the JavaScript call stack, top first
  exc,          \* an exception is propagating to the frame on top
  runs,         \* history: run() calls of the current flush, in order
  flushQueued,  \* history: ids queueWatcher accepted during this flush
  lateIds,      \* history: of those, the ids queued after a higher id had run
  aheadIds,     \* history: of those, the ids above the running one, not yet run
  computedUse,  \* history: reads of the computed property and calls of its
                \* getter since the last write to one of the computed
                \* watcher's deps (both counted up to MaxCount)
  vmVnode,      \* vm._vnode, the tree of the last render ("null": none yet)
  renderErrorOpt,  \* vm.$options.renderError, by what it does when called
  diag,         \* what warn() and handleError() reported in the last operation
  lastRender,   \* history: the last call of vm._render, see Render
  objs,         \* the JavaScript objects of the user program, see InitialHeap
  depUid,       \* uid of dep.js: the id of the Dep created last
  notified,     \* history: the deps notify() was called on by the last Heap
  heapOp,       \* history: the last Heap call and the object it found
  patch         \* updateChildren: the two child lists, the four indices, the
                \* platform children and the count of platform calls

depVars   == <<val, subs, target, targetStack>>
schedVars == <<queue, has, circular, waiting, flushing, index>>
tickVars  == <<callbacks, pending, useMacroTask, timers>>
vmVars    == <<renderW, computedW, vmWatchers, isBeingDestroyed, isMounted,
               updatedHook>>
histVars  == <<runs, flushQueued, lateIds, aheadIds, computedUse>>
renderVars == <<vmVnode, renderErrorOpt, diag, lastRender>>
heapVars  == <<objs, depUid, notified, heapOp>>
auxVars   == <<renderVars, heapVars, patch>>
vars == <<val, subs, target, targetStack, watchers, renderW, computedW,
          vmWatchers, isBeingDestroyed, isMounted, updatedHook, computedUse,
          queue, has, circular, waiting, flushing, index,
          callbacks, pending, useMacroTask, timers, stack, exc,
          runs, flushQueued, lateIds, aheadIds, auxVars>>

-----------------------------------------------------------------------------
(* Bounds of the model *)
NCells == 2
MaxVal == 2
MaxWatchers == 3
MaxCallbacks == 1
MaxFlushRuns == 205
MaxCount == 2
MaxTickCallbacks == 2
NObjs == 5
MaxDeps == 12
MaxVmCount == 2
MaxHeapOps == 3
MaxKey == 4
MaxChildren == 3

(* Program constants *)
MAX_UPDATE_COUNT == 100
NoTarget == 0
Undefined == -1
NaN == -2
RefBase == 10
NodeBase == 10

(* history: counting up to MaxCount *)
NoUse == [reads |-> 0, calls |-> 0]
UpTo(n) == IF n < MaxCount THEN n ELSE MaxCount

Cells == 1..NCells
Values == 0..MaxVal

-----------------------------------------------------------------------------
(* Sequence helpers *)
Range(s) == {s[i] : i \in DOMAIN s}

RECURSIVE RemoveFirst(_, _)
RemoveFirst(s, x) ==
  IF s = <<>> THEN <<>>
  ELSE IF Head(s) = x THEN Tail(s)
  ELSE <<Head(s)>> \o RemoveFirst(Tail(s), x)

InsertAt(s, i, x) == SubSeq(s, 1, i) \o <<x>> \o SubSeq(s, i + 1, Len(s))

RECURSIVE SortInsert(_, _)
SortInsert(s, x) ==
  IF s = <<>> THEN <<x>>
  ELSE IF x < Head(s) THEN <<x>> \o s
  ELSE <<Head(s)>> \o SortInsert(Tail(s), x)

(* Variants of queue.sort used to test the properties below *)
SortById_None(s) == s

RECURSIVE SortById_Desc(_)
SortById_Desc(s) ==
  IF s = <<>> THEN <<>>
  ELSE LET m == CHOOSE x \in Range(s) : \A y \in Range(s) : y <= x
       IN <<m>> \o SortById_Desc(RemoveFirst(s, m))

RECURSIVE SortById(_)
SortById(s) ==
  IF s = <<>> THEN <<>>
  ELSE SortInsert(SortById(SubSeq(s, 1, Len(s) - 1)), s[Len(s)])


-----------------------------------------------------------------------------
(***************************************************************************)
(* User code.  A getter, a watch callback or a lifecycle hook handler is a *)
(* short program over the tracked properties:                              *)
(*   <<"read", c>>       read property c (reactiveGetter)                  *)
(*   <<"readif", c, d>>  read c and, when it is 0, read d (a branch)       *)
(*   <<"write", c>>      assign a new value to property c (reactiveSetter) *)
(*   <<"computed">>      read the computed property (computedGetter)       *)
(*   <<"hook", h>>       callHook(vm, h), the handlers being Handlers(h)   *)
(*   <<"throw">>         throw an error                                    *)
(*   <<"throwif", c>>    throw an error when property c is not 0           *)
(*   <<"set", c, v>>     assign the value v to property c                  *)
(*   <<"teardown", k>>   call the unwatch function of the k-th watcher, if *)
(*                       vm.$watch has created it                          *)
(*   <<"destroy">>       call vm.$destroy()                                *)
(*   <<"nextTick">>      call nextTick(cb) with a callback of user code    *)
(*   <<"wrapped", p>>    call withMacroTask(p)(), p a program              *)
(* A getter returns the value it read last.                                *)
(***************************************************************************)
Prog(name) ==
  CASE name = "r1"      -> << <<"read", 1>> >>
    [] name = "r2"      -> << <<"read", 2>> >>
    [] name = "branch"  -> << <<"readif", 1, 2>> >>
    [] name = "rthrow"  -> << <<"read", 1>>, <<"throw">>, <<"read", 2>> >>
    [] name = "w1"      -> << <<"write", 1>> >>
    [] name = "w2"      -> << <<"write", 2>> >>
    [] name = "created" -> << <<"computed">>, <<"read", 1>> >>
    [] name = "render"  -> << <<"hook", "created">>, <<"read", 2>> >>
    [] name = "patchThrow" -> << <<"read", 1>>, <<"throw">> >>
    [] name = "sum"     -> << <<"read", 1>> >>
    [] name = "rsum"    -> << <<"computed">> >>
    [] name = "renderSum" -> << <<"computed">>, <<"read", 2>> >>
    [] name = "rthrowif" -> << <<"read", 2>>, <<"read", 1>>, <<"throwif", 1>> >>
    [] name = "cbThrow" -> << <<"throw">>, <<"write", 2>> >>
    [] name = "hThrow"  -> << <<"throw">>, <<"read", 1>> >>
    [] name = "hRead"   -> << <<"read", 1>> >>
    [] name = "renderH" -> << <<"read", 1>>, <<"hook", "beforeUpdate">>,
                              <<"read", 2>> >>
    [] name = "unwatch2" -> << <<"teardown", 2>> >>
    [] name = "destroy" -> << <<"destroy">> >>
    [] name = "set2to1" -> << <<"set", 2, 1>> >>
    [] name = "set2NaN" -> << <<"set", 2, NaN>> >>
    [] name = "tickCb"  -> << <<"nextTick">> >>
    [] name = "handler" -> << <<"write", 1>> >>
    [] name = "outer"   -> << <<"wrapped", "handler">>, <<"write", 2>> >>
    [] name = "g2y"     -> << <<"get", 2, "y">> >>
    [] name = "gq"      -> << <<"get", 1, "q">> >>
    [] name = "g2x"     -> << <<"get", 2, "x">> >>
    [] name = "cbx"     -> << <<"get", 2, "x">> >>
    [] name = "un3w2"   -> << <<"teardown", 3>>, <<"write", 2>> >>
    [] OTHER            -> <<>>

(* vm.$options[hook]: the handlers of a lifecycle hook, in order *)
Handlers(h) ==
  CASE h = "created"      -> << "created" >>
    [] h = "beforeUpdate" -> << "hThrow", "hRead" >>
    [] h = "updatedW"     -> << "w1" >>
    [] OTHER              -> <<>>

(* What the model's user code does: vm.$watch(expOrFn, cb), render, computed *)
WatchTemplates ==
  { <<"r1", "w2">>, <<"r2", "noop">>, <<"branch", "noop">>, <<"rthrow", "noop">> }
RenderGetters == {"render", "patchThrow"}
ComputedGetters == {"sum"}

(* The value a program assigns: always different from the current one *)
NextVal(v) == (v + 1) % (MaxVal + 1)

-----------------------------------------------------------------------------
(* Watcher: the fields the constructor sets (watcher.js, constructor) *)
NewWatcher(getter, cb, user, lazy, sync, deep) ==
  [ getter |-> getter, cb |-> cb, user |-> user, lazy |-> lazy,
    sync |-> sync, deep |-> deep, active |-> TRUE, dirty |-> lazy,
    deps |-> <<>>, newDeps |-> <<>>, depIds |-> {}, newDepIds |-> {},
    value |-> Undefined,
    readSet |-> {} ]   \* history: the cells its last completed get() read

uid == Len(watchers)
Ids == 1..Len(watchers)

(* Frames of the call stack *)
Frame(kind, w, prog, saved, ret, rest, phase) ==
  [ kind |-> kind, w |-> w, prog |-> prog, pc |-> 1, acc |-> Undefined,
    saved |-> saved,   \* history: Dep.target just before this frame's push
    ret |-> ret, thrown |-> FALSE, rest |-> rest, phase |-> phase,
    rd |-> {} ]        \* history: the cells this get() has read so far

(* callHook(vm, h): the activation that runs the handlers one by one *)
HookFrame(h, saved) ==
  LET hs == Handlers(h)
  IN Frame("hook", 0, IF hs = <<>> THEN "" ELSE Head(hs), saved, "",
           IF hs = <<>> THEN <<>> ELSE Tail(hs), h)

Top == Head(stack)
Below == Tail(stack)
Running == stack # <<>> \/ exc
AtEnd(f) == f.pc > Len(Prog(f.prog))
CodeKinds == {"get", "hook", "cb"}

-----------------------------------------------------------------------------
(* dep.js *)

(* pushTarget: the new Dep.target and targetStack, as <<target, stack>> *)
pushTarget(t) ==
  << t, IF target # NoTarget THEN Append(targetStack, target) ELSE targetStack >>

(* popTarget: Array.prototype.pop of an empty array gives undefined *)
popTarget ==
  IF targetStack = <<>> THEN << NoTarget, <<>> >>
  ELSE << targetStack[Len(targetStack)],
          SubSeq(targetStack, 1, Len(targetStack) - 1) >>

(* Watcher.addDep on the pair st = [w |-> watchers, s |-> subs] *)
addDep(st, t, c) ==
  IF c \in st.w[t].newDepIds THEN st
  ELSE [ w |-> [st.w EXCEPT ![t].newDepIds = @ \cup {c},
                            ![t].newDeps = Append(@, c)],
         s |-> IF c \in st.w[t].depIds THEN st.s
               ELSE [st.s EXCEPT ![c] = Append(@, t)] ]

(* Dep.depend under the active computation tg *)
depend(st, tg, c) == IF tg # NoTarget THEN addDep(st, tg, c) ELSE st

(* Watcher.depend: every dep of the watcher k, from the last to the first *)
RECURSIVE dependAll(_, _, _)
dependAll(st, tg, ds) ==
  IF ds = <<>> THEN st
  ELSE dependAll(depend(st, tg, ds[Len(ds)]), tg, SubSeq(ds, 1, Len(ds) - 1))

(* Watcher.cleanupDeps *)
RECURSIVE removeStale(_, _, _, _)
removeStale(s, t, ds, keep) ==
  IF ds = <<>> THEN s
  ELSE LET c == ds[Len(ds)]
           s1 == IF c \in keep THEN s ELSE [s EXCEPT ![c] = RemoveFirst(@, t)]
       IN removeStale(s1, t, SubSeq(ds, 1, Len(ds) - 1), keep)

(* Variant of cleanupDeps that unsubscribes from every old dep *)
cleanupDeps_DropAll(st, t) ==
  [ w |-> [st.w EXCEPT ![t].depIds = st.w[t].newDepIds,
                       ![t].newDepIds = {},
                       ![t].deps = st.w[t].newDeps,
                       ![t].newDeps = <<>>],
    s |-> removeStale(st.s, t, st.w[t].deps, {}) ]

(* Variant of cleanupDeps without the removeSub loop *)
cleanupDeps_KeepSubs(st, t) ==
  [ w |-> [st.w EXCEPT ![t].depIds = st.w[t].newDepIds,
                       ![t].newDepIds = {},
                       ![t].deps = st.w[t].newDeps,
                       ![t].newDeps = <<>>],
    s |-> st.s ]

cleanupDeps(st, t) ==
  [ w |-> [st.w EXCEPT ![t].depIds = st.w[t].newDepIds,
                       ![t].newDepIds = {},
                       ![t].deps = st.w[t].newDeps,
                       ![t].newDeps = <<>>],
    s |-> removeStale(st.s, t, st.w[t].deps, st.w[t].newDepIds) ]


-----------------------------------------------------------------------------
(* scheduler.js and next-tick.js, on the record S of their variables *)
Sched ==
  [ queue |-> queue, has |-> has, circular |-> circular, waiting |-> waiting,
    flushing |-> flushing, index |-> index, callbacks |-> callbacks,
    pending |-> pending, timers |-> timers,
    flushQueued |-> flushQueued, lateIds |-> lateIds, aheadIds |-> aheadIds ]

SetSched(S) ==
  /\ queue' = S.queue /\ has' = S.has /\ circular' = S.circular
  /\ waiting' = S.waiting /\ flushing' = S.flushing /\ index' = S.index
  /\ callbacks' = S.callbacks /\ pending' = S.pending /\ timers' = S.timers
  /\ flushQueued' = S.flushQueued /\ lateIds' = S.lateIds
  /\ aheadIds' = S.aheadIds

SetDep(st) == watchers' = st.w /\ subs' = st.s

(* Variant of nextTick without the pending flag *)
nextTick_NoPending(S, cb) ==
  [S EXCEPT !.callbacks = Append(@, cb), !.pending = TRUE,
            !.timers = Append(@, IF useMacroTask THEN "macro" ELSE "micro")]

(* nextTick(cb): the callback is queued; a timer is armed unless one is *)
nextTick(S, cb) ==
  LET S1 == [S EXCEPT !.callbacks = Append(@, cb)]
  IN IF ~S.pending
     THEN [S1 EXCEPT !.pending = TRUE,
                     !.timers = Append(@, IF useMacroTask THEN "macro" ELSE "micro")]
     ELSE S1

(* queueWatcher: the splice position while flushing (i of the while loop, 0-based) *)
RECURSIVE SpliceScan(_, _, _, _)
SpliceScan(q, idx, id, i) ==
  IF i > idx /\ q[i + 1] > id THEN SpliceScan(q, idx, id, i - 1) ELSE i

(* Variant of the insertion that always pushes *)
QueueInsert_Push(q, isFlushing, idx, id) == Append(q, id)

(* Variant of the insertion that splices at the front during a flush *)
QueueInsert_Front(q, isFlushing, idx, id) ==
  IF ~isFlushing THEN Append(q, id) ELSE InsertAt(q, 0, id)

QueueInsert(q, isFlushing, idx, id) ==
  IF ~isFlushing THEN Append(q, id)
  ELSE InsertAt(q, SpliceScan(q, idx, id, Len(q) - 1) + 1, id)

(* history: a watcher with a higher id has started to run in this flush *)
RanHigher(S, id) ==
  \E k \in 1..Len(S.queue) : k <= S.index + 1 /\ S.queue[k] > id

(* Variants of queueWatcher: without the has[id] test, without has[id] = true *)
queueWatcher_NoDedupe(S, id) ==
  LET S1 == [S EXCEPT
               !.has = @ \cup {id},
               !.queue = QueueInsert(S.queue, S.flushing, S.index, id)]
  IN IF ~S.waiting
     THEN nextTick([S1 EXCEPT !.waiting = TRUE], "flush")
     ELSE S1

queueWatcher_NoMark(S, id) ==
  IF id \in S.has THEN S
  ELSE LET S1 == [S EXCEPT
                    !.queue = QueueInsert(S.queue, S.flushing, S.index, id)]
       IN IF ~S.waiting
          THEN nextTick([S1 EXCEPT !.waiting = TRUE], "flush")
          ELSE S1

queueWatcher(S, id) ==
  IF id \in S.has THEN S
  ELSE LET S1 == [S EXCEPT
                    !.has = @ \cup {id},
                    !.queue = QueueInsert(S.queue, S.flushing, S.index, id),
                    !.flushQueued = IF S.flushing THEN @ \cup {id} ELSE @,
                    !.lateIds = IF S.flushing /\ RanHigher(S, id)
                                THEN @ \cup {id} ELSE @,
                    !.aheadIds = IF S.flushing /\ S.index < Len(S.queue)
                                    /\ id > S.queue[S.index + 1]
                                 THEN @ \cup {id} ELSE @]
       IN IF ~S.waiting
          THEN nextTick([S1 EXCEPT !.waiting = TRUE], "flush")
          ELSE S1

(* Variant of resetSchedulerState without has = {} *)
resetSchedulerState_KeepHas(S) ==
  [S EXCEPT !.index = 0, !.queue = <<>>,
            !.circular = [i \in 1..MaxWatchers |-> 0],
            !.waiting = FALSE, !.flushing = FALSE,
            !.flushQueued = {}, !.lateIds = {}, !.aheadIds = {}]

(* Variant of resetSchedulerState without waiting = false *)
resetSchedulerState_KeepWaiting(S) ==
  [S EXCEPT !.index = 0, !.queue = <<>>, !.has = {},
            !.circular = [i \in 1..MaxWatchers |-> 0],
            !.flushing = FALSE,
            !.flushQueued = {}, !.lateIds = {}, !.aheadIds = {}]

(* resetSchedulerState (development build: circular is cleared too) *)
resetSchedulerState(S) ==
  [S EXCEPT !.index = 0, !.queue = <<>>, !.has = {},
            !.circular = [i \in 1..MaxWatchers |-> 0],
            !.waiting = FALSE, !.flushing = FALSE,
            !.flushQueued = {}, !.lateIds = {}, !.aheadIds = {}]

-----------------------------------------------------------------------------
(***************************************************************************)
(* observer/index.js: Observer, observe, defineReactive, set, del,         *)
(* dependArray, on a heap of JavaScript objects.  A value is a primitive   *)
(* (0..MaxVal, Undefined, NaN) or a reference Ref(o) to the object o.  An  *)
(* object of the heap is the record                                        *)
(*   isArray, isVue, extensible   Array.isArray, _isVue, Object.isExtensible*)
(*   hasOb, obDep, vmCount        __ob__, __ob__.dep.id, __ob__.vmCount    *)
(*   keys                         Object.keys, in the order of creation    *)
(*   prop[k]                      the own property k (see NoProp)          *)
(*   items                        the elements of an array                 *)
(* and a property made by defineReactive keeps the closure variables val,  *)
(* dep (as its id) and childOb (as the object the observer belongs to, 0   *)
(* for undefined).  Dep ids are counted from 1; subs is indexed by them.   *)
(* The build is a development build, neither server rendering nor with     *)
(* shouldObserve switched off; every own property is configurable and not  *)
(* an accessor before defineReactive; arrays are not changed (the array    *)
(* methods of observer/array are not part of the program modelled).        *)
(***************************************************************************)
Ref(o) == RefBase + o
IsObject(v) == v > RefBase
ObjOf(v) == v - RefBase

ObjIds == 1..NObjs
Deps == 1..MaxDeps
Keys == {"p", "q", "x", "y"}

NoProp == [own |-> FALSE, reactive |-> FALSE, val |-> Undefined, dep |-> 0,
           childOb |-> 0]
DataProp(v) == [own |-> TRUE, reactive |-> FALSE, val |-> v, dep |-> 0,
                childOb |-> 0]

PlainObject(ks, vs) ==
  [ isArray |-> FALSE, isVue |-> FALSE, extensible |-> TRUE,
    hasOb |-> FALSE, obDep |-> 0, vmCount |-> 0, keys |-> ks,
    prop |-> [k \in Keys |->
                IF \E i \in DOMAIN ks : ks[i] = k
                THEN DataProp(vs[CHOOSE i \in DOMAIN ks : ks[i] = k])
                ELSE NoProp],
    items |-> <<>> ]
ArrayObject(es) == [PlainObject(<<>>, <<>>) EXCEPT !.isArray = TRUE, !.items = es]

(* The objects of the user program before anything is observed:            *)
(*   1  data = { p: state, q: list, x: 0 }                                 *)
(*   2  state = { x: 0 }                                                   *)
(*   3  list = [ inner, vm, 1 ]                                            *)
(*   4  inner = [ state ]                                                  *)
(*   5  vm, a component instance (_isVue) with the own property x          *)
(* frozen is the set of objects on which Object.preventExtensions was      *)
(* called.                                                                 *)
InitialHeap(frozen) ==
  LET h == [ o \in ObjIds |->
             CASE o = 1 -> PlainObject(<<"p", "q", "x">>, <<Ref(2), Ref(3), 0>>)
               [] o = 2 -> PlainObject(<<"x">>, <<0>>)
               [] o = 3 -> ArrayObject(<<Ref(4), Ref(5), 1>>)
               [] o = 4 -> ArrayObject(<<Ref(2)>>)
               [] OTHER -> [PlainObject(<<"x">>, <<0>>) EXCEPT !.isVue = TRUE] ]
  IN [ o \in ObjIds |-> [h[o] EXCEPT !.extensible = o \notin frozen] ]

NoHeapOp == [op |-> "", o |-> 0, k |-> "", v |-> Undefined,
             pre |-> PlainObject(<<>>, <<>>), uid |-> 0, n |-> 0]

(* nothing is observed yet *)
InitHeapVars ==
  /\ objs = InitialHeap({}) /\ depUid = 0
  /\ notified = <<>> /\ heapOp = NoHeapOp

(* updateChildren before it is called: no children on either side *)
NoPatch == [ oldCh |-> <<>>, newCh |-> <<>>, oldCh0 |-> <<>>,
             oldStart |-> 1, oldEnd |-> 0, newStart |-> 1, newEnd |-> 0,
             children |-> <<>>, created |-> 0, removed |-> 0, moved |-> 0 ]

-----------------------------------------------------------------------------
NoRender == [out |-> "", prev |-> "", res |-> ""]

(* before the first render: no tree, no renderError option *)
InitRenderVars ==
  /\ vmVnode = "null" /\ renderErrorOpt = "none"
  /\ diag = <<>> /\ lastRender = NoRender

InitCore ==
  /\ val = [c \in Cells |-> 0]
  /\ subs = [c \in Cells |-> <<>>]
  /\ target = NoTarget /\ targetStack = <<>>
  /\ watchers = <<>> /\ renderW = 0 /\ computedW = 0
  /\ vmWatchers = <<>> /\ isBeingDestroyed = FALSE /\ isMounted = FALSE
  /\ updatedHook = ""
  /\ computedUse = NoUse
  /\ queue = <<>> /\ has = {} /\ circular = [i \in 1..MaxWatchers |-> 0]
  /\ waiting = FALSE /\ flushing = FALSE /\ index = 0
  /\ callbacks = <<>> /\ pending = FALSE /\ useMacroTask = FALSE /\ timers = <<>>
  /\ stack = <<>> /\ exc = FALSE
  /\ runs = <<>> /\ flushQueued = {} /\ lateIds = {} /\ aheadIds = {}

Init == InitCore /\ InitRenderVars /\ InitHeapVars /\ patch = NoPatch

(* new Watcher(...): the constructor, up to its call of this.get() *)
Construct(W, ret) ==
  LET id == uid + 1
      pt == pushTarget(id)
  IN /\ watchers' = Append(watchers, W)
     /\ vmWatchers' = Append(vmWatchers, id)
     /\ IF W.lazy
        THEN UNCHANGED <<target, targetStack, stack>>
        ELSE /\ target' = pt[1] /\ targetStack' = pt[2]
             /\ stack' = <<Frame("get", id, W.getter, target, ret, <<>>, "")>> \o stack

(* vm.$watch(expOrFn, cb, options): a user watcher (state.js); the        *)
(* template is <<expOrFn, cb>>, <<expOrFn, cb, "sync">> or                 *)
(* <<expOrFn, cb, "deep">>                                                 *)
IsSync(tpl) == Len(tpl) >= 3 /\ tpl[3] = "sync"
IsDeep(tpl) == Len(tpl) >= 3 /\ tpl[3] = "deep"

Watch(tpl) ==
  /\ ~Running /\ uid < MaxWatchers
  /\ Construct(NewWatcher(tpl[1], tpl[2], TRUE, FALSE, IsSync(tpl),
                          IsDeep(tpl)), "ctor")
  /\ UNCHANGED <<val, subs, renderW, computedW, isBeingDestroyed, isMounted,
                 updatedHook, useMacroTask, exc, runs, computedUse>>
  /\ UNCHANGED <<schedVars, callbacks, pending, timers, flushQueued, lateIds, aheadIds>>
  /\ UNCHANGED auxVars

(* mountComponent: the render watcher, vm._watcher, of a component whose   *)
(* updated option is the handler list h                                    *)
MountOpt(g, h) ==
  /\ ~Running /\ uid < MaxWatchers /\ renderW = 0
  /\ renderW' = uid + 1
  /\ updatedHook' = h
  /\ Construct(NewWatcher(g, "noop", FALSE, FALSE, FALSE, FALSE), "ctor")
  /\ UNCHANGED <<val, subs, computedW, isBeingDestroyed, isMounted,
                 useMacroTask, exc, runs, computedUse>>
  /\ UNCHANGED <<schedVars, callbacks, pending, timers, flushQueued, lateIds, aheadIds>>
  /\ UNCHANGED auxVars

(* mountComponent of a component without updated handlers *)
Mount(g) == MountOpt(g, "")

(* initComputed: a lazy watcher, not evaluated until the property is read *)
InitComputed(g) ==
  /\ ~Running /\ uid < MaxWatchers /\ computedW = 0
  /\ computedW' = uid + 1
  /\ Construct(NewWatcher(g, "noop", FALSE, TRUE, FALSE, FALSE), "ctor")
  /\ UNCHANGED <<val, subs, renderW, isBeingDestroyed, isMounted, updatedHook,
                 useMacroTask, exc, runs, computedUse>>
  /\ UNCHANGED <<schedVars, callbacks, pending, timers, flushQueued, lateIds, aheadIds>>
  /\ UNCHANGED auxVars

(* history: the properties the computed watcher depends on *)
ComputedDeps == IF computedW = 0 THEN {} ELSE Range(watchers[computedW].deps)

(* dep.notify(): the subscriber list is copied, then update() on each *)
notifyFrames(c) ==
  IF subs[c] = <<>> THEN <<>>
  ELSE << Frame("notify", 0, "", NoTarget, "", subs[c], "") >>

(* === on the values of the model: NaN is not equal to itself *)
StrictEq(a, b) == a # NaN /\ a = b

(* Variant of the setter's test without the NaN clause *)
SameValue_Strict(newVal, value) == StrictEq(newVal, value)

(* reactiveSetter: newVal === value || (newVal !== newVal && value !== value) *)
SameValue(newVal, value) ==
  StrictEq(newVal, value) \/ (~StrictEq(newVal, newVal) /\ ~StrictEq(value, value))

(* The values user code assigns with vm.p = v *)
SetValues == {0, 1, NaN}

(* reactiveSetter called with the value v by user code outside any         *)
(* computation                                                             *)
UserSet(c, v) ==
  /\ ~Running
  /\ IF SameValue(v, val[c])
     THEN UNCHANGED <<val, stack, computedUse>>
     ELSE /\ val' = [val EXCEPT ![c] = v]
          /\ stack' = notifyFrames(c)
          /\ computedUse' = IF c \in ComputedDeps THEN NoUse ELSE computedUse
  /\ UNCHANGED <<subs, target, targetStack, watchers, vmVars, useMacroTask, exc,
                 runs>>
  /\ UNCHANGED <<schedVars, callbacks, pending, timers, flushQueued, lateIds, aheadIds>>
  /\ UNCHANGED auxVars

(* reactiveSetter called by user code outside any computation *)
UserWrite(c) ==
  /\ ~Running
  /\ val' = [val EXCEPT ![c] = NextVal(@)]
  /\ stack' = notifyFrames(c)
  /\ computedUse' = IF c \in ComputedDeps THEN NoUse ELSE computedUse
  /\ UNCHANGED <<subs, target, targetStack, watchers, vmVars, useMacroTask, exc,
                 runs>>
  /\ UNCHANGED <<schedVars, callbacks, pending, timers, flushQueued, lateIds, aheadIds>>
  /\ UNCHANGED auxVars

(* nextTick(cb) called by user code *)
UserNextTick ==
  /\ ~Running /\ Len(callbacks) < MaxCallbacks
  /\ SetSched(nextTick(Sched, "user"))
  /\ UNCHANGED <<depVars, watchers, vmVars, useMacroTask, stack, exc,
                 runs, computedUse>>
  /\ UNCHANGED auxVars

(* Variant of flushCallbacks without callbacks.length = 0 *)
TimerFire_KeepCallbacks ==
  /\ ~Running /\ timers # <<>>
  /\ timers' = Tail(timers)
  /\ pending' = FALSE
  /\ callbacks' = callbacks
  /\ stack' = IF callbacks = <<>> THEN <<>>
              ELSE << Frame("tick", 0, "", NoTarget, "", callbacks, "") >>
  /\ UNCHANGED <<depVars, watchers, vmVars, schedVars, useMacroTask, exc,
                 histVars>>
  /\ UNCHANGED auxVars

(* The timer armed by nextTick fires: flushCallbacks *)
TimerFire ==
  /\ ~Running /\ timers # <<>>
  /\ timers' = Tail(timers)
  /\ pending' = FALSE
  /\ callbacks' = <<>>
  /\ stack' = IF callbacks = <<>> THEN <<>>
              ELSE << Frame("tick", 0, "", NoTarget, "", callbacks, "") >>
  /\ UNCHANGED <<depVars, watchers, vmVars, schedVars, useMacroTask, exc,
                 histVars>>
  /\ UNCHANGED auxVars


-----------------------------------------------------------------------------
(* Steps of the frame on top of the call stack *)

DepSt == [w |-> watchers, s |-> subs]

(* catch: the rest of the frame's program is skipped *)
Catch(f) ==
  [f EXCEPT !.pc = Len(Prog(f.prog)) + 1, !.thrown = TRUE, !.acc = Undefined]

(* reactiveGetter of property c under the active computation tg *)
reactiveGetter(st, tg, c) == depend(st, tg, c)

(* One statement of a getter, a watch callback or a hook handler *)
LifeOps == {"teardown", "destroy"}
TickOps == {"nextTick"}

CodeStep ==
  /\ stack # <<>> /\ ~exc
  /\ Top.kind \in CodeKinds /\ ~AtEnd(Top)
  /\ Prog(Top.prog)[Top.pc][1] \notin LifeOps \cup TickOps \cup {"get"}
  /\ LET f == Top
         op == Prog(f.prog)[f.pc]
         next == [f EXCEPT !.pc = @ + 1]
     IN CASE op[1] = "read" ->
               /\ SetDep(reactiveGetter(DepSt, target, op[2]))
               /\ stack' = << [next EXCEPT !.acc = val[op[2]],
                                           !.rd = @ \cup {op[2]}] >> \o Below
               /\ UNCHANGED <<val, target, targetStack>>
          [] op[1] = "readif" ->
               LET st1 == reactiveGetter(DepSt, target, op[2])
                   both == val[op[2]] = 0
               IN /\ SetDep(IF both THEN reactiveGetter(st1, target, op[3]) ELSE st1)
                  /\ stack' = << [next EXCEPT
                                   !.acc = IF both THEN val[op[3]] ELSE val[op[2]],
                                   !.rd = @ \cup (IF both THEN {op[2], op[3]}
                                                  ELSE {op[2]})] >> \o Below
                  /\ UNCHANGED <<val, target, targetStack>>
          [] op[1] = "write" ->
               /\ val' = [val EXCEPT ![op[2]] = NextVal(@)]
               /\ stack' = notifyFrames(op[2]) \o <<next>> \o Below
               /\ UNCHANGED <<subs, watchers, target, targetStack>>
          [] op[1] = "computed" ->
               IF computedW = 0
               THEN /\ stack' = <<next>> \o Below
                    /\ UNCHANGED <<val, subs, watchers, target, targetStack>>
               ELSE IF watchers[computedW].dirty
               THEN \* watcher.evaluate(): this.get() starts
                    LET pt == pushTarget(computedW)
                    IN /\ target' = pt[1] /\ targetStack' = pt[2]
                       /\ stack' = << Frame("get", computedW,
                                            watchers[computedW].getter, target,
                                            "evaluate", <<>>, "") >> \o stack
                       /\ UNCHANGED <<val, subs, watchers>>
               ELSE \* cached: watcher.depend() and return watcher.value
                    /\ SetDep(dependAll(DepSt, target, watchers[computedW].deps))
                    /\ stack' = << [next EXCEPT
                                     !.acc = watchers[computedW].value,
                                     !.rd = @ \cup Range(watchers[computedW].deps)] >>
                                \o Below
                    /\ UNCHANGED <<val, target, targetStack>>
          [] op[1] = "hook" ->
               \* callHook: pushTarget() with no argument
               LET pt == pushTarget(NoTarget)
               IN /\ target' = pt[1] /\ targetStack' = pt[2]
                  /\ stack' = << HookFrame(op[2], target) >> \o <<next>> \o Below
                  /\ UNCHANGED <<val, subs, watchers>>
          [] op[1] = "throw" ->
               /\ stack' = << Catch(f) >> \o Below
               /\ UNCHANGED <<val, subs, watchers, target, targetStack>>
          [] op[1] = "set" ->
               \* reactiveSetter: return when the value is the same
               /\ val' = IF SameValue(op[3], val[op[2]]) THEN val
                         ELSE [val EXCEPT ![op[2]] = op[3]]
               /\ stack' = (IF SameValue(op[3], val[op[2]]) THEN <<>>
                            ELSE notifyFrames(op[2])) \o <<next>> \o Below
               /\ UNCHANGED <<subs, watchers, target, targetStack>>
          [] op[1] = "throwif" ->
               /\ stack' = << IF val[op[2]] # 0 THEN Catch(f) ELSE next >>
                           \o Below
               /\ UNCHANGED <<val, subs, watchers, target, targetStack>>
  /\ computedUse' =
       LET op == Prog(Top.prog)[Top.pc]
       IN IF op[1] = "write" /\ op[2] \in ComputedDeps THEN NoUse
          ELSE IF /\ op[1] = "set" /\ op[2] \in ComputedDeps
                  /\ ~SameValue(op[3], val[op[2]]) THEN NoUse
          ELSE IF op[1] = "computed" /\ computedW # 0
          THEN [ reads |-> UpTo(computedUse.reads + 1),
                 calls |-> IF watchers[computedW].dirty
                           THEN UpTo(computedUse.calls + 1)
                           ELSE computedUse.calls ]
          ELSE computedUse
  /\ UNCHANGED <<vmVars, schedVars, tickVars, exc, runs, flushQueued, lateIds,
                 aheadIds>>
  /\ UNCHANGED auxVars

(* Variant of run without the test of active *)
runGuard_Always(W) == TRUE

(* Watcher.run: if (this.active) *)
runGuard(W) == W.active

(* Variant of run that always stores the value and calls the callback *)
runTail_Always(W, v) == TRUE

(* Watcher.run after this.get() returned v: compare, store, call cb *)
runTail(W, v) == ~StrictEq(v, W.value) \/ IsObject(v) \/ W.deep

(* Variant of evaluate without dirty = false *)
evaluate_KeepDirty(W, v) == [W EXCEPT !.value = v]

(* Watcher.evaluate after this.get() returned v *)
evaluate(W, v) == [W EXCEPT !.value = v, !.dirty = FALSE]

(* The finally block of Watcher.get, and the return into the caller *)
GetFinally ==
  /\ stack # <<>> /\ ~exc
  /\ Top.kind = "get" /\ AtEnd(Top)
  /\ LET f == Top
         w == f.w
         W == watchers[w]
         pt == popTarget
         st1 == cleanupDeps(DepSt, w)
         st2 == [st1 EXCEPT !.w[w].readSet = f.rd]
     IN /\ target' = pt[1] /\ targetStack' = pt[2]
        /\ IF f.thrown /\ ~W.user
           THEN \* catch: throw e; the error leaves get()
                /\ SetDep(st2) /\ stack' = Below /\ exc' = TRUE
           ELSE /\ exc' = FALSE
                /\ CASE f.ret = "ctor" ->
                          /\ SetDep([st2 EXCEPT !.w[w].value = f.acc])
                          /\ stack' = Below
                     [] f.ret = "run" ->
                          IF runTail(W, f.acc)
                          THEN /\ SetDep([st2 EXCEPT !.w[w].value = f.acc])
                               /\ stack' = IF W.user /\ Prog(W.cb) # <<>>
                                           THEN << Frame("cb", w, W.cb, NoTarget,
                                                         "", <<>>, "") >> \o Below
                                           ELSE Below
                          ELSE SetDep(st2) /\ stack' = Below
                     [] f.ret = "evaluate" ->
                          \* evaluate: value, dirty; computedGetter: depend()
                          LET st3 == [st2 EXCEPT !.w[w] = evaluate(@, f.acc)]
                              ds == st3.w[w].deps
                          IN /\ SetDep(dependAll(st3, pt[1], ds))
                             /\ stack' =
                                  IF Below = <<>> THEN <<>>
                                  ELSE << [Head(Below) EXCEPT
                                            !.pc = @ + 1, !.acc = f.acc,
                                            !.rd = @ \cup Range(ds)] >>
                                       \o Tail(Below)
  /\ isMounted' = ( \/ isMounted
                    \* mountComponent after new Watcher returned
                    \/ /\ Top.ret = "ctor" /\ Top.w = renderW
                       /\ ~Top.thrown )
  /\ UNCHANGED <<val, renderW, computedW, vmWatchers, isBeingDestroyed,
                 updatedHook, schedVars, tickVars, histVars>>
  /\ UNCHANGED auxVars

(* Watcher.teardown and vm.$destroy, on the record of what they change *)
LifeSt == [w |-> watchers, s |-> subs, vw |-> vmWatchers]

SetLife(st) == watchers' = st.w /\ subs' = st.s /\ vmWatchers' = st.vw

(* Variant of teardown without the removeSub loop *)
teardown_KeepSubs(st, w, destroying) ==
  IF ~st.w[w].active THEN st
  ELSE [ w  |-> [st.w EXCEPT ![w].active = FALSE],
         s  |-> st.s,
         vw |-> IF destroying THEN st.vw ELSE RemoveFirst(st.vw, w) ]

(* Watcher.teardown of watcher w; destroying is vm._isBeingDestroyed *)
teardown(st, w, destroying) ==
  IF ~st.w[w].active THEN st
  ELSE [ w  |-> [st.w EXCEPT ![w].active = FALSE],
         s  |-> removeStale(st.s, w, st.w[w].deps, {}),
         vw |-> IF destroying THEN st.vw ELSE RemoveFirst(st.vw, w) ]

(* $destroy: vm._watchers[i].teardown() from the last to the first *)
RECURSIVE teardownAll(_, _)
teardownAll(st, ws) ==
  IF ws = <<>> THEN st
  ELSE teardownAll(teardown(st, ws[Len(ws)], TRUE), SubSeq(ws, 1, Len(ws) - 1))

(* Variant of $destroy that tears down the render watcher only *)
destroy_RenderOnly(st) ==
  IF renderW # 0 THEN teardown(st, renderW, TRUE) ELSE st

(* $destroy after vm._isBeingDestroyed = true: vm._watcher, then vm._watchers *)
destroy(st) ==
  teardownAll(IF renderW # 0 THEN teardown(st, renderW, TRUE) ELSE st, st.vw)

(* the unwatch function exists for the watchers vm.$watch created *)
HasUnwatch(k) == k \in Ids /\ watchers[k].user

(* unwatchFn of the k-th watcher, called by user code outside any computation *)
Unwatch(k) ==
  /\ ~Running /\ HasUnwatch(k)
  /\ SetLife(teardown(LifeSt, k, isBeingDestroyed))
  /\ UNCHANGED <<val, target, targetStack, renderW, computedW, isBeingDestroyed,
                 isMounted, updatedHook, schedVars, tickVars, stack, exc,
                 histVars>>
  /\ UNCHANGED auxVars

(* vm.$destroy() called by user code outside any computation *)
Destroy ==
  /\ ~Running
  /\ IF isBeingDestroyed
     THEN UNCHANGED <<watchers, subs, vmWatchers, isBeingDestroyed>>
     ELSE isBeingDestroyed' = TRUE /\ SetLife(destroy(LifeSt))
  /\ UNCHANGED <<val, target, targetStack, renderW, computedW,
                 isMounted, updatedHook, schedVars, tickVars, stack, exc,
                 histVars>>
  /\ UNCHANGED auxVars

(* One statement of user code that calls an unwatch function or $destroy *)
CodeLifeStep ==
  /\ stack # <<>> /\ ~exc
  /\ Top.kind \in CodeKinds /\ ~AtEnd(Top)
  /\ Prog(Top.prog)[Top.pc][1] \in LifeOps
  /\ LET op == Prog(Top.prog)[Top.pc]
     IN IF op[1] = "teardown"
        THEN /\ SetLife(IF HasUnwatch(op[2])
                        THEN teardown(LifeSt, op[2], isBeingDestroyed)
                        ELSE LifeSt)
             /\ UNCHANGED isBeingDestroyed
        ELSE IF isBeingDestroyed
        THEN UNCHANGED <<watchers, subs, vmWatchers, isBeingDestroyed>>
        ELSE isBeingDestroyed' = TRUE /\ SetLife(destroy(LifeSt))
  /\ stack' = << [Top EXCEPT !.pc = @ + 1] >> \o Below
  /\ UNCHANGED <<val, target, targetStack, renderW, computedW,
                 isMounted, updatedHook, schedVars, tickVars, exc, histVars>>
  /\ UNCHANGED auxVars

(* Variant of callHook with one try/catch around the whole loop *)
HookRest_Abort(f) == IF f.thrown THEN <<>> ELSE f.rest

(* callHook: the handlers still to call once the current one has returned *)
(* or thrown (each call has its own try/catch)                             *)
HookRest(f) == f.rest

(* callHook: the next handler, or after the last one popTarget() *)
HookEnd ==
  /\ stack # <<>> /\ ~exc
  /\ Top.kind = "hook" /\ AtEnd(Top)
  /\ IF HookRest(Top) # <<>>
     THEN /\ stack' = << [Top EXCEPT !.prog = Head(HookRest(Top)),
                                     !.rest = Tail(HookRest(Top)),
                                     !.pc = 1, !.thrown = FALSE] >> \o Below
          /\ UNCHANGED <<target, targetStack>>
     ELSE /\ target' = popTarget[1] /\ targetStack' = popTarget[2]
          /\ stack' = Below
  /\ UNCHANGED <<val, subs, watchers, vmVars, schedVars, tickVars, exc,
                 histVars>>
  /\ UNCHANGED auxVars

(* the watch callback returned *)
CbEnd ==
  /\ stack # <<>> /\ ~exc
  /\ Top.kind = "cb" /\ AtEnd(Top)
  /\ stack' = Below
  /\ UNCHANGED <<depVars, watchers, vmVars, schedVars, tickVars, exc,
                 histVars>>
  /\ UNCHANGED auxVars


(* Variant of update that queues a sync watcher *)
update_NoSync(W) == IF W.lazy THEN "dirty" ELSE "queue"

(* Variant of update that re-evaluates a lazy watcher at once *)
update_EagerLazy(W) == IF W.lazy \/ W.sync THEN "run" ELSE "queue"

(* Watcher.update: what the flags select *)
update(W) == IF W.lazy THEN "dirty" ELSE IF W.sync THEN "run" ELSE "queue"

(* dep.notify(): subs[i].update() for the next subscriber of the copy *)
NotifyStep ==
  /\ stack # <<>> /\ ~exc
  /\ Top.kind = "notify"
  /\ LET f == Top
         w == Head(f.rest)
         W == watchers[w]
         after == IF Tail(f.rest) = <<>> THEN Below
                  ELSE << [f EXCEPT !.rest = Tail(@)] >> \o Below
     IN IF update(W) = "dirty"
        THEN \* Watcher.update: this.dirty = true
             /\ watchers' = [watchers EXCEPT ![w].dirty = TRUE]
             /\ stack' = after
             /\ UNCHANGED <<target, targetStack, schedVars, tickVars, histVars>>
        ELSE IF update(W) = "run"
        THEN \* Watcher.update: this.run()
             /\ IF runGuard(W)
                THEN /\ target' = pushTarget(w)[1]
                     /\ targetStack' = pushTarget(w)[2]
                     /\ stack' = << Frame("get", w, W.getter, target, "run",
                                          <<>>, "") >> \o after
                ELSE UNCHANGED <<target, targetStack>> /\ stack' = after
             /\ UNCHANGED <<watchers, schedVars, tickVars, histVars>>
        ELSE \* Watcher.update: queueWatcher(this)
             /\ SetSched(queueWatcher(Sched, w))
             /\ stack' = after
             /\ UNCHANGED <<watchers, target, targetStack, useMacroTask, runs,
                            computedUse>>
  /\ UNCHANGED <<val, subs, vmVars, exc>>
  /\ UNCHANGED auxVars

(* flushCallbacks: copies[i]() for the next callback of the copy *)
TickStep ==
  /\ stack # <<>> /\ ~exc
  /\ Top.kind = "tick"
  /\ LET f == Top
         after == IF Tail(f.rest) = <<>> THEN Below
                  ELSE << [f EXCEPT !.rest = Tail(@)] >> \o Below
     IN IF Head(f.rest) = "flush"
        THEN \* flushSchedulerQueue up to its loop: flushing, sort, index = 0
             /\ flushing' = TRUE
             /\ queue' = SortById(queue)
             /\ index' = 0
             /\ stack' = << Frame("flush", 0, "", NoTarget, "", <<>>, "head") >>
                         \o after
             /\ UNCHANGED <<has, circular, waiting>>
        ELSE \* a callback of user code
             /\ stack' = after
             /\ UNCHANGED schedVars
  /\ UNCHANGED <<depVars, watchers, vmVars, tickVars, exc, histVars>>
  /\ UNCHANGED auxVars

(* Variant of the loop head that leaves has[id] set *)
clearHas_Keep(h, id) == h

(* flushSchedulerQueue: has[id] = null, before watcher.run() *)
clearHas(h, id) == h \ {id}

(* flushSchedulerQueue: the loop, one iteration in two steps: the head up  *)
(* to the call of watcher.run(), and the check after it returned           *)
FlushStep ==
  /\ stack # <<>> /\ ~exc
  /\ Top.kind = "flush" /\ Top.phase \in {"head", "check"}
  /\ LET f == Top
         to(ph) == [f EXCEPT !.phase = ph]
     IN IF f.phase = "head"
        THEN IF index < Len(queue)
             THEN LET w == queue[index + 1]
                  IN /\ Len(runs) < MaxFlushRuns
                     /\ has' = clearHas(has, w)
                     /\ runs' = Append(runs, w)
                     /\ aheadIds' = aheadIds \ {w}
                     /\ IF runGuard(watchers[w])
                        THEN /\ target' = pushTarget(w)[1]
                             /\ targetStack' = pushTarget(w)[2]
                             /\ stack' = << Frame("get", w, watchers[w].getter,
                                                  target, "run", <<>>, "") >>
                                         \o << to("check") >> \o Below
                        ELSE /\ UNCHANGED <<target, targetStack>>
                             /\ stack' = << to("check") >> \o Below
                     /\ UNCHANGED <<circular, index>>
             ELSE /\ stack' = << to("post") >> \o Below
                  /\ UNCHANGED <<has, runs, aheadIds, target, targetStack,
                                 circular, index>>
        ELSE LET w == queue[index + 1]
                 n == circular[w] + 1
             IN /\ IF w \in has
                   THEN /\ circular' = [circular EXCEPT ![w] = n]
                        /\ IF n > MAX_UPDATE_COUNT
                           THEN /\ stack' = << [to("post") EXCEPT !.ret = "break"] >>
                                            \o Below
                                /\ UNCHANGED index
                           ELSE /\ stack' = << to("head") >> \o Below
                                /\ index' = index + 1
                   ELSE /\ stack' = << to("head") >> \o Below
                        /\ index' = index + 1
                        /\ UNCHANGED circular
                /\ UNCHANGED <<has, runs, aheadIds, target, targetStack>>
  /\ UNCHANGED <<val, subs, watchers, vmVars, queue, waiting, flushing, tickVars,
                 exc, flushQueued, lateIds, computedUse>>
  /\ UNCHANGED auxVars

(* callUpdatedHooks: the watchers of the queue copy that get an updated   *)
(* hook, in the order of the calls (from the last to the first)           *)
RECURSIVE updatedQueue(_)
updatedQueue(q) ==
  IF q = <<>> THEN <<>>
  ELSE LET w == q[Len(q)]
       IN (IF w = renderW /\ isMounted THEN <<w>> ELSE <<>>)
          \o updatedQueue(SubSeq(q, 1, Len(q) - 1))

(* flushSchedulerQueue after the loop: the copy of the queue, then         *)
(* resetSchedulerState, then callUpdatedHooks                              *)
FlushPost ==
  /\ stack # <<>> /\ ~exc
  /\ Top.kind = "flush" /\ Top.phase = "post"
  /\ SetSched(resetSchedulerState(Sched))
  /\ runs' = <<>>
  /\ stack' = IF updatedQueue(queue) = <<>> THEN Below
              ELSE << [Top EXCEPT !.phase = "hooks",
                                  !.rest = updatedQueue(queue)] >> \o Below
  /\ UNCHANGED <<depVars, watchers, vmVars, useMacroTask, exc, computedUse>>
  /\ UNCHANGED auxVars

(* callUpdatedHooks: callHook(vm, 'updated') for the next watcher of the   *)
(* copy, or the return of flushSchedulerQueue after the last one           *)
CallUpdatedHooks ==
  /\ stack # <<>> /\ ~exc
  /\ Top.kind = "flush" /\ Top.phase = "hooks"
  /\ IF Top.rest = <<>>
     THEN stack' = Below /\ UNCHANGED <<target, targetStack>>
     ELSE LET pt == pushTarget(NoTarget)
          IN /\ target' = pt[1] /\ targetStack' = pt[2]
             /\ stack' = << HookFrame(updatedHook, target) >>
                         \o << [Top EXCEPT !.rest = Tail(@)] >> \o Below
  /\ UNCHANGED <<val, subs, watchers, vmVars, schedVars, tickVars, exc,
                 histVars>>
  /\ UNCHANGED auxVars

(* history: the name of a user callback given to nextTick tells what the   *)
(* scheduler was doing at the call: flushing, awaiting a flush, or neither *)
TickTag ==
  IF flushing THEN "during" ELSE IF waiting THEN "after" ELSE "user"

(* nextTick(cb) called by user code outside any computation, whatever is   *)
(* already in callbacks                                                    *)
UserTick ==
  /\ ~Running /\ Len(callbacks) < MaxTickCallbacks
  /\ SetSched(nextTick(Sched, TickTag))
  /\ UNCHANGED <<depVars, watchers, vmVars, useMacroTask, stack, exc,
                 runs, computedUse>>
  /\ UNCHANGED auxVars

(* One statement of user code that calls nextTick(cb) *)
CodeTickStep ==
  /\ stack # <<>> /\ ~exc
  /\ Top.kind \in CodeKinds /\ ~AtEnd(Top)
  /\ Prog(Top.prog)[Top.pc][1] \in TickOps
  /\ SetSched(nextTick(Sched, TickTag))
  /\ stack' = << [Top EXCEPT !.pc = @ + 1] >> \o Below
  /\ UNCHANGED <<depVars, watchers, vmVars, useMacroTask, exc,
                 runs, computedUse>>
  /\ UNCHANGED auxVars

(* fn._withTask, the function withMacroTask(fn) returns, called by the     *)
(* platform (an event handler): useMacroTask = true, then fn               *)
MacroCall(p) ==
  /\ ~Running
  /\ useMacroTask' = TRUE
  /\ stack' = << Frame("task", 0, p, NoTarget, "", <<>>, "") >>
  /\ UNCHANGED <<depVars, watchers, vmVars, schedVars, callbacks, pending,
                 timers, exc, histVars>>
  /\ UNCHANGED auxVars

(* One statement of a function wrapped by withMacroTask *)
TaskStep ==
  /\ stack # <<>> /\ ~exc
  /\ Top.kind = "task" /\ ~AtEnd(Top)
  /\ LET op == Prog(Top.prog)[Top.pc]
         next == [Top EXCEPT !.pc = @ + 1]
     IN IF op[1] = "wrapped"
        THEN \* a wrapped function calls another wrapped function
             /\ useMacroTask' = TRUE
             /\ stack' = << Frame("task", 0, op[2], NoTarget, "", <<>>, "") >>
                         \o <<next>> \o Below
             /\ UNCHANGED <<val, computedUse>>
        ELSE \* op[1] = "write": reactiveSetter
             /\ val' = [val EXCEPT ![op[2]] = NextVal(@)]
             /\ stack' = notifyFrames(op[2]) \o <<next>> \o Below
             /\ computedUse' = IF op[2] \in ComputedDeps THEN NoUse
                               ELSE computedUse
             /\ UNCHANGED useMacroTask
  /\ UNCHANGED <<subs, target, targetStack, watchers, vmVars, schedVars,
                 callbacks, pending, timers, exc, runs, flushQueued, lateIds,
                 aheadIds>>
  /\ UNCHANGED auxVars

(* fn._withTask after fn returned: useMacroTask = false *)
TaskEnd ==
  /\ stack # <<>> /\ ~exc
  /\ Top.kind = "task" /\ AtEnd(Top)
  /\ useMacroTask' = FALSE
  /\ stack' = Below
  /\ UNCHANGED <<depVars, watchers, vmVars, schedVars, callbacks, pending,
                 timers, exc, histVars>>
  /\ UNCHANGED auxVars

(* An exception reaches the frame on top (or leaves the task) *)
Unwind ==
  /\ exc
  /\ IF stack = <<>>
     THEN exc' = FALSE /\ UNCHANGED stack
     ELSE IF Top.kind \in CodeKinds
     THEN \* try/catch of Watcher.get, of callHook, of a user watcher's cb
          exc' = FALSE /\ stack' = << Catch(Top) >> \o Below
     ELSE IF Top.kind = "tick"
     THEN \* try/catch of the nextTick wrapper
          exc' = FALSE /\ UNCHANGED stack
     ELSE \* dep.notify and flushSchedulerQueue catch nothing
          exc' = TRUE /\ stack' = Below
  /\ UNCHANGED <<depVars, watchers, vmVars, schedVars, tickVars,
                 histVars>>
  /\ UNCHANGED auxVars

-----------------------------------------------------------------------------
Next ==
  \/ \E tpl \in WatchTemplates : Watch(tpl)
  \/ \E g \in RenderGetters : Mount(g)
  \/ \E g \in ComputedGetters : InitComputed(g)
  \/ \E c \in Cells : UserWrite(c)
  \/ UserNextTick
  \/ TimerFire
  \/ CodeStep
  \/ GetFinally
  \/ HookEnd
  \/ CbEnd
  \/ NotifyStep
  \/ TickStep
  \/ FlushStep
  \/ FlushPost
  \/ CallUpdatedHooks
  \/ Unwind

Spec == Init /\ [][Next]_vars


-----------------------------------------------------------------------------
(***************************************************************************)
(* The same program with watchers whose callbacks write what they or each  *)
(* other watch.  The watchers are registered with vm.$watch in the order   *)
(* of one of these scenarios; everything else is the code above.           *)
(***************************************************************************)
CycleScenarios ==
  { << <<"r1", "w1">>, <<"branch", "noop">> >>,
    << <<"r1", "w2">>, <<"r2", "w1">> >>,
    << <<"r1", "w2">>, <<"r2", "w2">>, <<"r2", "noop">> >> }

Template(i) == << watchers[i].getter, watchers[i].cb >>

WatchCycle ==
  \E sc \in CycleScenarios :
    /\ uid < Len(sc)
    /\ \A i \in 1..uid : Template(i) = sc[i]
    /\ Watch(sc[uid + 1])

NextCycle ==
  \/ WatchCycle
  \/ \E c \in Cells : UserWrite(c)
  \/ TimerFire
  \/ CodeStep
  \/ GetFinally
  \/ CbEnd
  \/ NotifyStep
  \/ TickStep
  \/ FlushStep
  \/ FlushPost

SpecCycle == Init /\ [][NextCycle]_vars

-----------------------------------------------------------------------------
(***************************************************************************)
(* The same program with a computed property read by a render function and *)
(* by a watcher (vm.$watch(function () { return this.sum }, cb)).          *)
(***************************************************************************)
LazyTemplates == { <<"rsum", "noop">>, <<"r2", "w1">> }
LazyRenderGetters == {"renderSum"}

NextLazy ==
  \/ \E g \in ComputedGetters : InitComputed(g)
  \/ \E tpl \in LazyTemplates : Watch(tpl)
  \/ \E g \in LazyRenderGetters : Mount(g)
  \/ \E c \in Cells : UserWrite(c)
  \/ TimerFire
  \/ CodeStep
  \/ GetFinally
  \/ CbEnd
  \/ NotifyStep
  \/ TickStep
  \/ FlushStep
  \/ FlushPost
  \/ HookEnd
  \/ CallUpdatedHooks

SpecLazy == Init /\ [][NextLazy]_vars

-----------------------------------------------------------------------------
(***************************************************************************)
(* The same program with the three kinds of watcher update() tells apart:  *)
(* a computed (lazy) watcher with a reader, a sync watcher, a plain one.   *)
(***************************************************************************)
OptTemplates ==
  { <<"r1", "w2", "sync">>, <<"r2", "noop">>, <<"rsum", "noop">> }

NextOpts ==
  \/ \E g \in ComputedGetters : InitComputed(g)
  \/ \E tpl \in OptTemplates : Watch(tpl)
  \/ \E c \in Cells : UserWrite(c)
  \/ TimerFire
  \/ CodeStep
  \/ GetFinally
  \/ CbEnd
  \/ NotifyStep
  \/ TickStep
  \/ FlushStep
  \/ FlushPost

SpecOpts == Init /\ [][NextOpts]_vars

-----------------------------------------------------------------------------
(***************************************************************************)
(* The same program with user code that throws: a watched expression that  *)
(* throws once property 1 is not 0, a watch callback that throws, a hook   *)
(* whose first handler throws, a render function that throws.              *)
(***************************************************************************)
ErrTemplates ==
  { <<"rthrowif", "cbThrow">>, <<"r2", "noop">>, <<"r1", "w2">>,
    <<"rthrow", "noop">> }
ErrRenderGetters == {"renderH", "patchThrow"}

NextErr ==
  \/ \E tpl \in ErrTemplates : Watch(tpl)
  \/ \E g \in ErrRenderGetters : Mount(g)
  \/ \E c \in Cells : UserWrite(c)
  \/ TimerFire
  \/ CodeStep
  \/ GetFinally
  \/ HookEnd
  \/ CbEnd
  \/ NotifyStep
  \/ TickStep
  \/ FlushStep
  \/ FlushPost
  \/ CallUpdatedHooks
  \/ Unwind

SpecErr == Init /\ [][NextErr]_vars

-----------------------------------------------------------------------------
(***************************************************************************)
(* The same program with a component whose updated hook writes property 1, *)
(* which a user watcher and (through the branch) the render function read. *)
(***************************************************************************)
HookTemplates == { <<"r1", "w2">>, <<"r2", "noop">> }
HookRenderGetters == {"r2", "branch"}

NextHooks ==
  \/ \E tpl \in HookTemplates : Watch(tpl)
  \/ \E g \in HookRenderGetters : MountOpt(g, "updatedW")
  \/ \E c \in Cells : UserWrite(c)
  \/ TimerFire
  \/ CodeStep
  \/ GetFinally
  \/ HookEnd
  \/ CbEnd
  \/ NotifyStep
  \/ TickStep
  \/ FlushStep
  \/ FlushPost
  \/ CallUpdatedHooks

SpecHooks == Init /\ [][NextHooks]_vars

-----------------------------------------------------------------------------
(***************************************************************************)
(* The same program with user code that calls unwatch functions and        *)
(* $destroy, from watch callbacks and from outside any computation.        *)
(***************************************************************************)
LifeTemplates ==
  { <<"r1", "unwatch2">>, <<"rsum", "destroy">> }
LifeRenderGetters == {"renderSum"}

NextLife ==
  \/ \E g \in ComputedGetters : InitComputed(g)
  \/ \E tpl \in LifeTemplates : Watch(tpl)
  \/ \E g \in LifeRenderGetters : Mount(g)
  \/ \E c \in Cells : UserWrite(c)
  \/ \E k \in 1..MaxWatchers : Unwatch(k)
  \/ Destroy
  \/ TimerFire
  \/ CodeStep
  \/ CodeLifeStep
  \/ GetFinally
  \/ HookEnd
  \/ CbEnd
  \/ NotifyStep
  \/ TickStep
  \/ FlushStep
  \/ FlushPost
  \/ CallUpdatedHooks

SpecLife == Init /\ [][NextLife]_vars

-----------------------------------------------------------------------------
(***************************************************************************)
(* The same program with assignments of given values, NaN among them, from *)
(* watch callbacks and from outside any computation.                       *)
(***************************************************************************)
SetTemplates ==
  { <<"r1", "set2NaN">>, <<"r2", "set2to1">>, <<"rsum", "noop">>,
    <<"r1", "set2to1", "deep">> }

NextSet ==
  \/ \E g \in ComputedGetters : InitComputed(g)
  \/ \E tpl \in SetTemplates : Watch(tpl)
  \/ \E c \in Cells : \E v \in SetValues : UserSet(c, v)
  \/ TimerFire
  \/ CodeStep
  \/ GetFinally
  \/ CbEnd
  \/ NotifyStep
  \/ TickStep
  \/ FlushStep
  \/ FlushPost

SpecSet == Init /\ [][NextSet]_vars

-----------------------------------------------------------------------------
(***************************************************************************)
(* The same program with nextTick(cb) called by user code at any time, by  *)
(* watch callbacks too, and with functions wrapped by withMacroTask.       *)
(***************************************************************************)
TickTemplates == { <<"r1", "tickCb">>, <<"r2", "noop">> }
TickRenderGetters == {"patchThrow"}
TaskPrograms == {"handler", "outer"}

NextTick ==
  \/ \E tpl \in TickTemplates : Watch(tpl)
  \/ \E g \in TickRenderGetters : Mount(g)
  \/ \E c \in Cells : UserWrite(c)
  \/ UserTick
  \/ \E p \in TaskPrograms : MacroCall(p)
  \/ TimerFire
  \/ CodeStep
  \/ CodeTickStep
  \/ TaskStep
  \/ TaskEnd
  \/ GetFinally
  \/ CbEnd
  \/ NotifyStep
  \/ TickStep
  \/ FlushStep
  \/ FlushPost
  \/ Unwind

SpecTick == Init /\ [][NextTick]_vars

-----------------------------------------------------------------------------
(***************************************************************************)
(* Rendering: Vue.prototype._render of a development build, and the        *)
(* updateComponent of mountComponent, vm._update(vm._render()).  A tree is *)
(* named by a string: "t1".."t3" are VNodes a render function returns,     *)
(* "empty" is the VNode of createEmptyVNode(), "null" is no tree; "array"  *)
(* and "other" are the results that are not a VNode (an array of roots,    *)
(* any other value) and "throw" is a render function that throws.          *)
(***************************************************************************)
RenderOutcomes == {"t1", "t2", "t3", "array", "other", "throw"}
RenderErrorOpts == {"none", "t1", "array", "throw"}
IsVNode(v) == v \in {"t1", "t2", "t3", "empty"}

(* Variant of _render that answers a thrown error with an empty VNode *)
vmRender_NoFallback(out, prev, rerr) ==
  IF out = "throw" THEN <<"empty", <<"handleError render">>>>
  ELSE IF IsVNode(out) THEN <<out, <<>>>>
  ELSE <<"empty", IF out = "array" THEN <<"warn Multiple root nodes">>
                  ELSE <<>>>>

(* _render: <<the VNode returned, the reports of handleError and warn>> *)
vmRender(out, prev, rerr) ==
  LET tried ==
        IF out # "throw" THEN <<out, <<>>>>
        ELSE IF rerr = "none" THEN <<prev, <<"handleError render">>>>
        ELSE IF rerr = "throw"
          THEN <<prev, <<"handleError render", "handleError renderError">>>>
        ELSE <<rerr, <<"handleError render">>>>
  IN  IF IsVNode(tried[1]) THEN tried
      ELSE <<"empty",
             tried[2] \o (IF tried[1] = "array"
                            THEN <<"warn Multiple root nodes">> ELSE <<>>)>>

(* vm._update(vm._render()): the VNode returned becomes vm._vnode *)
Render(out) ==
  /\ ~Running
  /\ LET r == vmRender(out, vmVnode, renderErrorOpt)
     IN  /\ vmVnode' = r[1]
         /\ diag' = r[2]
         /\ lastRender' = [out |-> out, prev |-> vmVnode, res |-> r[1]]
  /\ UNCHANGED <<depVars, watchers, vmVars, schedVars, tickVars, stack, exc,
                 histVars, renderErrorOpt, heapVars, patch>>

InitRender ==
  /\ InitCore
  /\ vmVnode = "null" /\ renderErrorOpt \in RenderErrorOpts
  /\ diag = <<>> /\ lastRender = NoRender
  /\ InitHeapVars /\ patch = NoPatch

NextRender == \E out \in RenderOutcomes : Render(out)

SpecRender == InitRender /\ [][NextRender]_vars

-----------------------------------------------------------------------------
(* observer/index.js on the heap: observe, defineReactive, set, del *)
(* hasOwn(value, '__ob__') && value.__ob__ instanceof Observer *)
HasOb(H, v) == IsObject(v) /\ H.objs[ObjOf(v)].hasOb

(* the second branch of observe: the value can get an observer *)
Observable(O) == O.extensible /\ ~O.isVue

(* The functions below work on the record H of the heap variables (objs,   *)
(* the objects; uid, the last dep id given out; notified, the deps whose   *)
(* notify() was called; diag, the warnings) and return the H they leave.   *)
RECURSIVE observe(_, _)
RECURSIVE newObserver(_, _)
RECURSIVE walk(_, _, _)
RECURSIVE observeArray(_, _, _)
RECURSIVE defineReactive(_, _, _, _)

(* Variant of observe that gives an observed value a new observer *)
observe_Renew(H, v) ==
  IF ~IsObject(v) THEN H
  ELSE IF HasOb(H, v)
    THEN [H EXCEPT !.objs[ObjOf(v)].obDep = H.uid + 1, !.uid = @ + 1]
  ELSE IF Observable(H.objs[ObjOf(v)]) THEN newObserver(H, ObjOf(v))
  ELSE H

(* observe(value) without asRootData; the observer returned is __ob__ of   *)
(* the value in the heap returned, see ObOf                                *)
observe(H, v) ==
  IF ~IsObject(v) THEN H
  ELSE IF HasOb(H, v) THEN H
  ELSE IF Observable(H.objs[ObjOf(v)]) THEN newObserver(H, ObjOf(v))
  ELSE H

(* the object whose observer observe(v) has returned, 0 for undefined *)
ObOf(H, v) == IF HasOb(H, v) THEN ObjOf(v) ELSE 0

(* new Observer(value) *)
newObserver(H, o) ==
  LET H1 == [H EXCEPT !.objs[o].hasOb = TRUE, !.objs[o].obDep = H.uid + 1,
                      !.objs[o].vmCount = 0, !.uid = @ + 1]
  IN  IF H.objs[o].isArray THEN observeArray(H1, H1.objs[o].items, 1)
      ELSE walk(H1, o, H1.objs[o].keys)

(* Observer.walk over Object.keys(obj) *)
walk(H, o, ks) ==
  IF ks = <<>> THEN H
  ELSE walk(defineReactive(H, o, Head(ks), H.objs[o].prop[Head(ks)].val),
            o, Tail(ks))

(* Observer.observeArray *)
observeArray(H, es, i) ==
  IF i > Len(es) THEN H
  ELSE observeArray(observe(H, es[i]), es, i + 1)

(* defineReactive(obj, key, val) *)
defineReactive(H, o, k, v) ==
  LET H1 == [H EXCEPT !.uid = @ + 1]      \* const dep = new Dep()
      H2 == observe(H1, v)                \* let childOb = observe(val)
  IN  [H2 EXCEPT
         !.objs[o].prop[k] = [own |-> TRUE, reactive |-> TRUE, val |-> v,
                              dep |-> H1.uid, childOb |-> ObOf(H2, v)],
         !.objs[o].keys = IF H2.objs[o].prop[k].own THEN @ ELSE Append(@, k)]

(* observe(value, asRootData) *)
observeRoot(H, v, asRootData) ==
  LET H1 == observe(H, v)
  IN  IF asRootData /\ HasOb(H1, v)
      THEN [H1 EXCEPT !.objs[ObjOf(v)].vmCount = @ + 1]
      ELSE H1

(* Variant of dependArray that does not go into nested arrays *)
RECURSIVE dependArray_Flat(_, _, _, _, _)
dependArray_Flat(st, tg, O, es, i) ==
  IF i > Len(es) THEN st
  ELSE LET e == es[i]
           st1 == IF IsObject(e) /\ O[ObjOf(e)].hasOb
                  THEN depend(st, tg, O[ObjOf(e)].obDep) ELSE st
       IN dependArray_Flat(st1, tg, O, es, i + 1)

(* dependArray(value) under the active computation tg *)
RECURSIVE dependArray(_, _, _, _, _)
dependArray(st, tg, O, es, i) ==
  IF i > Len(es) THEN st
  ELSE LET e == es[i]
           st1 == IF IsObject(e) /\ O[ObjOf(e)].hasOb
                  THEN depend(st, tg, O[ObjOf(e)].obDep) ELSE st
           st2 == IF IsObject(e) /\ O[ObjOf(e)].isArray
                  THEN dependArray(st1, tg, O, O[ObjOf(e)].items, 1) ELSE st1
       IN dependArray(st2, tg, O, es, i + 1)

(* reactiveGetter of the property P under the active computation tg *)
propGetter(st, tg, O, P) ==
  IF tg = NoTarget THEN st
  ELSE LET st1 == depend(st, tg, P.dep)
       IN  IF P.childOb = 0 THEN st1
           ELSE LET st2 == depend(st1, tg, O[P.childOb].obDep)
                IN  IF IsObject(P.val) /\ O[ObjOf(P.val)].isArray
                    THEN dependArray(st2, tg, O, O[ObjOf(P.val)].items, 1)
                    ELSE st2


(* Variant of the setter that notifies the deps of all the properties of   *)
(* the object                                                              *)
assign_NotifyAll(H, o, k, v) ==
  LET P == H.objs[o].prop[k]
      ks == SelectSeq(H.objs[o].keys, LAMBDA j : H.objs[o].prop[j].reactive)
  IN  IF P.own /\ P.reactive
      THEN IF SameValue(v, P.val) THEN H
           ELSE LET H1 == [H EXCEPT !.objs[o].prop[k].val = v]
                    H2 == observe(H1, v)
                IN  [H2 EXCEPT !.objs[o].prop[k].childOb = ObOf(H2, v),
                               !.notified = [i \in DOMAIN ks |->
                                               H.objs[o].prop[ks[i]].dep]]
      ELSE IF P.own THEN [H EXCEPT !.objs[o].prop[k].val = v]
      ELSE [H EXCEPT !.objs[o].prop[k] = DataProp(v),
                     !.objs[o].keys = Append(@, k)]

(* obj[key] = val of plain JavaScript: the reactiveSetter of a property    *)
(* made by defineReactive, a store into a data property otherwise          *)
assign(H, o, k, v) ==
  LET P == H.objs[o].prop[k]
  IN  IF P.own /\ P.reactive
      THEN IF SameValue(v, P.val) THEN H
           ELSE LET H1 == [H EXCEPT !.objs[o].prop[k].val = v]
                    H2 == observe(H1, v)      \* childOb = observe(newVal)
                IN  [H2 EXCEPT !.objs[o].prop[k].childOb = ObOf(H2, v),
                               !.notified = Append(@, P.dep)]
      ELSE IF P.own THEN [H EXCEPT !.objs[o].prop[k].val = v]
      ELSE [H EXCEPT !.objs[o].prop[k] = DataProp(v),
                     !.objs[o].keys = Append(@, k)]

(* Variant of set that defines the new property without ob.dep.notify() *)
set_NoNotify(H, o, k, v) ==
  LET O == H.objs[o]
  IN  IF O.prop[k].own THEN assign(H, o, k, v)
      ELSE IF O.isVue \/ (O.hasOb /\ O.vmCount > 0)
        THEN [H EXCEPT !.diag = Append(@, "warn Avoid adding reactive properties")]
      ELSE IF ~O.hasOb THEN assign(H, o, k, v)
      ELSE defineReactive(H, o, k, v)

(* set(target, key, val), target not an array *)
set(H, o, k, v) ==
  LET O == H.objs[o]
  IN  IF O.prop[k].own THEN assign(H, o, k, v)  \* key in target
      ELSE IF O.isVue \/ (O.hasOb /\ O.vmCount > 0)
        THEN [H EXCEPT !.diag = Append(@, "warn Avoid adding reactive properties")]
      ELSE IF ~O.hasOb THEN assign(H, o, k, v)
      ELSE [defineReactive(H, o, k, v) EXCEPT !.notified = Append(@, O.obDep)]

(* Variant of del that does not test vmCount *)
del_NoRootTest(H, o, k) ==
  LET O == H.objs[o]
  IN  IF O.isVue
        THEN [H EXCEPT !.diag = Append(@, "warn Avoid deleting properties")]
      ELSE IF ~O.prop[k].own THEN H
      ELSE LET H1 == [H EXCEPT !.objs[o].prop[k] = NoProp,
                               !.objs[o].keys = RemoveFirst(@, k)]
           IN  IF ~O.hasOb THEN H1
               ELSE [H1 EXCEPT !.notified = Append(@, O.obDep)]

(* del(target, key), target not an array *)
del(H, o, k) ==
  LET O == H.objs[o]
  IN  IF O.isVue \/ (O.hasOb /\ O.vmCount > 0)
        THEN [H EXCEPT !.diag = Append(@, "warn Avoid deleting properties")]
      ELSE IF ~O.prop[k].own THEN H
      ELSE LET H1 == [H EXCEPT !.objs[o].prop[k] = NoProp,
                               !.objs[o].keys = RemoveFirst(@, k)]
           IN  IF ~O.hasOb THEN H1
               ELSE [H1 EXCEPT !.notified = Append(@, O.obDep)]

(* What user code calls: observe(data, asRootData) of initData and of the  *)
(* other callers, obj[key] = val, set, del                                 *)
HeapOps == {"observe", "observeRoot", "assign", "set", "del"}
HeapCall(H, op, o, k, v) ==
  CASE op = "observe"     -> observeRoot(H, Ref(o), FALSE)
    [] op = "observeRoot" -> observeRoot(H, Ref(o), TRUE)
    [] op = "assign"      -> assign(H, o, k, v)
    [] op = "set"         -> set(H, o, k, v)
    [] OTHER              -> del(H, o, k)

HeapSt == [objs |-> objs, uid |-> depUid, notified |-> <<>>, diag |-> <<>>]

RECURSIVE notifyAll(_)
notifyAll(ds) ==
  IF ds = <<>> THEN <<>> ELSE notifyFrames(Head(ds)) \o notifyAll(Tail(ds))

(* user code, outside every computation, calls one of HeapOps, MaxHeapOps  *)
(* times at most; a new own property is added only to an extensible object *)
Heap(op, o, k, v) ==
  /\ ~Running /\ heapOp.n < MaxHeapOps
  /\ op \in {"assign", "set"} /\ ~objs[o].prop[k].own => objs[o].extensible
  /\ LET R == HeapCall(HeapSt, op, o, k, v)
     IN  /\ R.uid <= MaxDeps
         /\ \A i \in ObjIds : R.objs[i].vmCount <= MaxVmCount
         /\ objs' = R.objs /\ depUid' = R.uid
         /\ notified' = R.notified /\ diag' = R.diag
         /\ stack' = notifyAll(R.notified)
  /\ heapOp' = [op |-> op, o |-> o, k |-> k, v |-> v, pre |-> objs[o],
                uid |-> depUid, n |-> heapOp.n + 1]
  /\ UNCHANGED <<depVars, watchers, vmVars, schedVars, tickVars, exc, histVars,
                 renderVars, patch>>

(* One statement <<"get", o, k>> of a getter or a watch callback: the      *)
(* property k of the object o is read                                      *)
ObsOps == {"get"}
CodeObsStep ==
  /\ stack # <<>> /\ ~exc
  /\ Top.kind \in CodeKinds /\ ~AtEnd(Top)
  /\ Prog(Top.prog)[Top.pc][1] \in ObsOps
  /\ LET f == Top
         op == Prog(f.prog)[f.pc]
         P == objs[op[2]].prop[op[3]]
     IN  /\ SetDep(IF P.own /\ P.reactive
                   THEN propGetter(DepSt, target, objs, P) ELSE DepSt)
         /\ stack' = << [f EXCEPT !.pc = @ + 1, !.acc = P.val] >> \o Below
  /\ UNCHANGED <<val, target, targetStack, vmVars, schedVars, tickVars, exc,
                 histVars, auxVars>>

(* The user program of SpecObs *)
ObsTemplates ==
  { <<"gq", "cbx">>, <<"g2x", "noop">>, <<"g2y", "noop">> }
FrozenSets == { {}, {3} }
ObserveCalls ==
  { <<"observeRoot", 1>>, <<"observeRoot", 2>>, <<"observe", 4>>,
    <<"observe", 5>> }
PropCalls ==
  { <<"assign", 2, k, v>> : k \in {"x", "y"}, v \in {0, 1} }
  \cup { <<"set", 2, k, v>> : k \in {"x", "y"}, v \in {1, Ref(4)} }
  \cup { <<"set", o, "y", 1>> : o \in {1, 5} }
  \cup { <<"del", 2, k, 0>> : k \in {"x", "y"} }
  \cup { <<"del", o, "x", 0>> : o \in {1, 5} }

InitObs ==
  /\ val = [c \in Cells |-> 0]
  /\ subs = [c \in Deps |-> <<>>]
  /\ target = NoTarget /\ targetStack = <<>>
  /\ watchers = <<>> /\ renderW = 0 /\ computedW = 0
  /\ vmWatchers = <<>> /\ isBeingDestroyed = FALSE /\ isMounted = FALSE
  /\ updatedHook = ""
  /\ computedUse = NoUse
  /\ queue = <<>> /\ has = {} /\ circular = [i \in 1..MaxWatchers |-> 0]
  /\ waiting = FALSE /\ flushing = FALSE /\ index = 0
  /\ callbacks = <<>> /\ pending = FALSE /\ useMacroTask = FALSE /\ timers = <<>>
  /\ stack = <<>> /\ exc = FALSE
  /\ runs = <<>> /\ flushQueued = {} /\ lateIds = {} /\ aheadIds = {}
  /\ InitRenderVars
  /\ \E frozen \in FrozenSets : objs = InitialHeap(frozen)
  /\ depUid = 0 /\ notified = <<>> /\ heapOp = NoHeapOp
  /\ patch = NoPatch

NextObs ==
  \/ \E tpl \in ObsTemplates :
        (\A w \in Ids : watchers[w].getter # tpl[1]) /\ Watch(tpl)
  \/ \E c \in ObserveCalls : Heap(c[1], c[2], "", 0)
  \/ \E c \in PropCalls : Heap(c[1], c[2], c[3], c[4])
  \/ TimerFire
  \/ CodeObsStep
  \/ GetFinally
  \/ CbEnd
  \/ NotifyStep
  \/ TickStep
  \/ FlushStep
  \/ FlushPost

SpecObs == InitObs /\ [][NextObs]_vars

-----------------------------------------------------------------------------
(***************************************************************************)
(* updateChildren, the keyed four-pointer reconciliation of the children   *)
(* of one element.  All children have the same tag, so two vnodes are the  *)
(* same node when their keys are equal.  A vnode is named by its key       *)
(* (1..MaxKey; 0 in oldCh: the old vnode was reused through the key map    *)
(* and is passed over from then on).  The platform node of the old vnode   *)
(* with key k is k, a node created for the new vnode with key k is         *)
(* Created(k).  patch.children is the list of platform children; created,  *)
(* removed and moved count the create-node calls, the remove calls and the *)
(* inserts of a node that exists.  A node moved or created "into position" *)
(* goes before the node of old-start; the nodes inserted after the loop go *)
(* before the node of the new vnode that follows new-end, or to the end.   *)
(***************************************************************************)
Created(k) == NodeBase + k
PatchKeys == 1..MaxKey

(* the lists of at most MaxChildren distinct keys *)
KeyLists ==
  UNION { {s \in [1..n -> PatchKeys] : \A i, j \in 1..n : i # j => s[i] # s[j]}
          : n \in 0..MaxChildren }

IndexOf(s, x) == CHOOSE i \in DOMAIN s : s[i] = x

(* parent.insertBefore(node, ref): the node leaves the place it has, and   *)
(* goes before ref, to the end when ref is 0                               *)
Without(s, x) == SelectSeq(s, LAMBDA y : y # x)

(* Variant of insertBefore that always appends *)
insertBefore_Append(s, node, ref) == Append(Without(s, node), node)

insertBefore(s, node, ref) ==
  LET t == Without(s, node)
  IN  IF ref = 0 \/ ref \notin Range(t) THEN Append(t, node)
      ELSE InsertAt(t, IndexOf(t, ref) - 1, node)

(* node.nextSibling, 0 for none *)
nextSibling(s, node) ==
  LET i == IndexOf(s, node) IN IF i < Len(s) THEN s[i + 1] ELSE 0

(* the platform node of the new vnode at index i, after it was placed *)
NodeOfNew(P, i) ==
  IF P.newCh[i] \in Range(P.oldCh0) THEN P.newCh[i] ELSE Created(P.newCh[i])

InLoop == patch.oldStart <= patch.oldEnd /\ patch.newStart <= patch.newEnd
OldStartKey == patch.oldCh[patch.oldStart]
OldEndKey == patch.oldCh[patch.oldEnd]
NewStartKey == patch.newCh[patch.newStart]
NewEndKey == patch.newCh[patch.newEnd]
Passed == OldStartKey = 0 \/ OldEndKey = 0
Same1 == OldStartKey = NewStartKey
Same2 == OldEndKey = NewEndKey
Same3 == OldStartKey = NewEndKey
Same4 == OldEndKey = NewStartKey

PatchFrame == UNCHANGED <<depVars, watchers, vmVars, schedVars, tickVars,
                          stack, exc, histVars, renderVars, heapVars>>

(* an old vnode that was reused through the key map is passed over *)
SkipOldStart ==
  /\ InLoop /\ OldStartKey = 0
  /\ patch' = [patch EXCEPT !.oldStart = @ + 1]
  /\ PatchFrame

SkipOldEnd ==
  /\ InLoop /\ OldStartKey # 0 /\ OldEndKey = 0
  /\ patch' = [patch EXCEPT !.oldEnd = @ - 1]
  /\ PatchFrame

(* (1) old-start and new-start are the same node *)
StartStart ==
  /\ InLoop /\ ~Passed /\ Same1
  /\ patch' = [patch EXCEPT !.oldStart = @ + 1, !.newStart = @ + 1]
  /\ PatchFrame

(* (2) old-end and new-end are the same node *)
EndEnd ==
  /\ InLoop /\ ~Passed /\ ~Same1 /\ Same2
  /\ patch' = [patch EXCEPT !.oldEnd = @ - 1, !.newEnd = @ - 1]
  /\ PatchFrame

(* (3) old-start and new-end: the node moves to after the node of old-end *)
StartEnd ==
  /\ InLoop /\ ~Passed /\ ~Same1 /\ ~Same2 /\ Same3
  /\ patch' = [patch EXCEPT
       !.children = insertBefore(@, OldStartKey, nextSibling(@, OldEndKey)),
       !.moved = @ + 1, !.oldStart = @ + 1, !.newEnd = @ - 1]
  /\ PatchFrame

(* (4) old-end and new-start: the node moves to before the node of         *)
(* old-start                                                               *)
EndStart ==
  /\ InLoop /\ ~Passed /\ ~Same1 /\ ~Same2 /\ ~Same3 /\ Same4
  /\ patch' = [patch EXCEPT
       !.children = insertBefore(@, OldEndKey, OldStartKey),
       !.moved = @ + 1, !.oldEnd = @ - 1, !.newStart = @ + 1]
  /\ PatchFrame

(* Variant of KeyLookup in which the old vnode found stays in the old range *)
KeyLookup_NoMark ==
  /\ InLoop /\ ~Passed /\ ~Same1 /\ ~Same2 /\ ~Same3 /\ ~Same4
  /\ LET found == {i \in patch.oldStart..patch.oldEnd :
                     patch.oldCh[i] = NewStartKey}
     IN  patch' =
           IF found # {}
           THEN [patch EXCEPT
                   !.children = insertBefore(@, NewStartKey, OldStartKey),
                   !.moved = @ + 1, !.newStart = @ + 1]
           ELSE [patch EXCEPT
                   !.children = insertBefore(@, Created(NewStartKey), OldStartKey),
                   !.created = @ + 1, !.newStart = @ + 1]
  /\ PatchFrame

(* none of the four: the key of new-start is looked up in the rest of the  *)
(* old range; the old node found moves into position, a new node is        *)
(* created there when none is found                                        *)
KeyLookup ==
  /\ InLoop /\ ~Passed /\ ~Same1 /\ ~Same2 /\ ~Same3 /\ ~Same4
  /\ LET found == {i \in patch.oldStart..patch.oldEnd :
                     patch.oldCh[i] = NewStartKey}
     IN  patch' =
           IF found # {}
           THEN [patch EXCEPT
                   !.children = insertBefore(@, NewStartKey, OldStartKey),
                   !.moved = @ + 1, !.newStart = @ + 1,
                   !.oldCh[CHOOSE i \in found : TRUE] = 0]
           ELSE [patch EXCEPT
                   !.children = insertBefore(@, Created(NewStartKey), OldStartKey),
                   !.created = @ + 1, !.newStart = @ + 1]
  /\ PatchFrame

RECURSIVE insertAll(_, _, _)
insertAll(s, nodes, ref) ==
  IF nodes = <<>> THEN s
  ELSE insertAll(insertBefore(s, Head(nodes), ref), Tail(nodes), ref)

(* after the loop, the old range is exhausted: the new vnodes that are     *)
(* left are created and inserted                                           *)
BulkInsert ==
  /\ patch.oldStart > patch.oldEnd /\ patch.newStart <= patch.newEnd
  /\ LET rest == SubSeq(patch.newCh, patch.newStart, patch.newEnd)
         ref == IF patch.newEnd < Len(patch.newCh)
                THEN NodeOfNew(patch, patch.newEnd + 1) ELSE 0
     IN  patch' = [patch EXCEPT
           !.children = insertAll(@, [i \in DOMAIN rest |-> Created(rest[i])], ref),
           !.created = @ + Len(rest), !.newStart = patch.newEnd + 1]
  /\ PatchFrame

(* after the loop, the new range is exhausted: the old vnodes that are     *)
(* left are removed                                                        *)
BulkRemove ==
  /\ patch.newStart > patch.newEnd /\ patch.oldStart <= patch.oldEnd
  /\ LET rest == SelectSeq(SubSeq(patch.oldCh, patch.oldStart, patch.oldEnd),
                           LAMBDA k : k # 0)
     IN  patch' = [patch EXCEPT
           !.children = SelectSeq(@, LAMBDA n : n \notin Range(rest)),
           !.removed = @ + Len(rest), !.oldStart = patch.oldEnd + 1]
  /\ PatchFrame

(* updateChildren(parent, oldCh, newCh) is called: the platform children   *)
(* are the nodes of the old vnodes, in their order                         *)
InitPatch ==
  /\ InitCore /\ InitRenderVars /\ InitHeapVars
  /\ \E o \in KeyLists, n \in KeyLists :
       patch = [NoPatch EXCEPT !.oldCh = o, !.oldCh0 = o, !.newCh = n,
                               !.oldEnd = Len(o), !.newEnd = Len(n),
                               !.children = o]

NextPatch ==
  \/ SkipOldStart
  \/ SkipOldEnd
  \/ StartStart
  \/ EndEnd
  \/ StartEnd
  \/ EndStart
  \/ KeyLookup
  \/ BulkInsert
  \/ BulkRemove

SpecPatch == InitPatch /\ [][NextPatch]_vars

(* updateChildren is a loop of synchronous code: it goes on while a step   *)
(* is possible                                                             *)
SpecPatchLive == SpecPatch /\ WF_vars(NextPatch)

-----------------------------------------------------------------------------
(* Vocabulary of the properties *)
Count(s, x) == Cardinality({i \in DOMAIN s : s[i] = x})
NoDup(s) == \A i, j \in DOMAIN s : i # j => s[i] # s[j]
SubscribedCells(w) == {c \in Cells : w \in Range(subs[c])}
InGet(w) == \E i \in DOMAIN stack : stack[i].kind = "get" /\ stack[i].w = w
FlushAt(ph) ==
  stack # <<>> /\ ~exc /\ Top.kind = "flush" /\ Top.phase = ph
(* the flush loop is between iterations: queue[index] has not been started *)
AtLoopHead ==
  \E i \in DOMAIN stack : stack[i].kind = "flush" /\ stack[i].phase = "head"
(* the part of the queue the flush loop has not started to run *)
NotYetRun ==
  IF ~flushing THEN queue
  ELSE IF AtLoopHead THEN SubSeq(queue, index + 1, Len(queue))
  ELSE SubSeq(queue, index + 2, Len(queue))
(* the property a one-read getter reads *)
CellOf(g) == IF g = "r1" THEN 1 ELSE 2

(***************************************************************************)
(* C1  Coalescing.  A watcher that is not enqueued again while the flush   *)
(* is running is run at most once in that flush, however many writes       *)
(* enqueued it, and when its run() has returned the value it stored is the *)
(* value written last to the property it watches.                          *)
(***************************************************************************)
C1_Coalesce ==
  \A w \in Ids :
    /\ w \notin flushQueued => Count(runs, w) <= 1
    /\ ( /\ FlushAt("check") /\ queue[index + 1] = w
         /\ w \notin flushQueued
         /\ watchers[w].getter \in {"r1", "r2"} )
       => watchers[w].value = val[CellOf(watchers[w].getter)]

(* property 1 written twice (0 -> 1 -> 2), one run of the only watcher,    *)
(* whose callback (one write of property 2) fired once                     *)
C1_Witness ==
  /\ Len(watchers) = 1 /\ Template(1) = <<"r1", "w2">>
  /\ FlushAt("check") /\ runs = <<1>>
  /\ val[1] = 2 /\ watchers[1].value = 2 /\ val[2] = 1

(***************************************************************************)
(* C2  Exact dependencies.  For every watcher outside get(), the           *)
(* properties whose subs list holds it are exactly the properties its last *)
(* completed get() read.                                                   *)
(***************************************************************************)
C2_ExactDeps ==
  \A w \in Ids : ~InGet(w) => SubscribedCells(w) = watchers[w].readSet

C5_Bounded ==
  \A w \in Ids : Count(runs, w) <= MAX_UPDATE_COUNT + 1

C7_Dedupe ==
  /\ NoDup(NotYetRun)
  /\ Range(NotYetRun) = has

(* property 2 written twice since the watcher's last run: queueWatcher was *)
(* called twice for it and it is in the queue once                         *)
C7_Witness ==
  /\ ~Running /\ ~flushing
  /\ \E w \in has :
       /\ Template(w) = <<"r2", "noop">>
       /\ watchers[w].value # Undefined
       /\ val[2] = NextVal(NextVal(watchers[w].value))
       /\ Count(queue, w) = 1

FlushesOutstanding ==
  Count(callbacks, "flush")
  + Cardinality({ij \in (DOMAIN stack) \X (1..(MaxCallbacks + 2)) :
                   /\ stack[ij[1]].kind = "tick"
                   /\ ij[2] \in DOMAIN stack[ij[1]].rest
                   /\ stack[ij[1]].rest[ij[2]] = "flush"})

C9_SingleFlush ==
  /\ FlushesOutstanding <= 1
  /\ FlushesOutstanding = 1 => waiting
  /\ Len(timers) <= 1
  /\ pending <=> timers # <<>>

(* two watchers enqueued and a user callback registered in one batch: one  *)
(* flush callback, one timer                                               *)
C9_Witness ==
  /\ ~Running /\ Cardinality(has) >= 2
  /\ callbacks = <<"user", "flush">> /\ Len(timers) = 1

(***************************************************************************)
(* C10  Stack discipline.  As claimed: every popTarget, on every exit path *)
(* of Watcher.get and of callHook, restores Dep.target to the value it had *)
(* just before the matching pushTarget.                                    *)
(***************************************************************************)
C10_StackDiscipline ==
  [][ ( /\ stack # <<>> /\ ~exc /\ Top.kind \in {"get", "hook"}
        /\ AtEnd(Top) /\ Top.rest = <<>> )
        => target' = Top.saved ]_vars

(***************************************************************************)
(* C11  Caching of a lazy watcher.  Since the last write to a property the *)
(* computed watcher depends on, its getter has been called exactly once if *)
(* the computed property has been read at all (once or several times), and *)
(* not at all otherwise; and a cached value that is not marked dirty is    *)
(* the value the getter gives now.                                         *)
(***************************************************************************)
NotifyPending == \E i \in DOMAIN stack : stack[i].kind = "notify"

C11_Caching ==
  /\ computedUse.calls = (IF computedUse.reads = 0 THEN 0 ELSE 1)
  /\ ( /\ computedW # 0 /\ ~exc /\ ~NotifyPending
       /\ watchers[computedW].active /\ ~watchers[computedW].dirty )
     => watchers[computedW].value = val[1]

(* the computed property read twice with no write between: one getter call *)
C11_Witness ==
  /\ computedW # 0 /\ ~watchers[computedW].dirty
  /\ computedUse = [reads |-> 2, calls |-> 1]

(***************************************************************************)
(* C12  Dispatch of update().  A step of dep.notify calls update() on the  *)
(* next subscriber w.  Lazy: only dirty is set, no getter starts, queue,   *)
(* marks, waiting and the nextTick state are unchanged.  Sync: run()       *)
(* starts at once (its get() is the new activation), the scheduler is      *)
(* unchanged.  Otherwise: w is pending in the queue, a flush is awaited,   *)
(* no getter starts.  And a sync watcher is never in the queue.            *)
(***************************************************************************)
NoFramePushed ==
  stack' \in { Below, << [Top EXCEPT !.rest = Tail(@)] >> \o Below }

C12_Dispatch ==
  [][ /\ \A i \in DOMAIN queue' : ~watchers'[queue'[i]].sync
      /\ (stack # <<>> /\ ~exc /\ Top.kind = "notify") =>
           LET w == Head(Top.rest)
               W == watchers[w]
           IN /\ W.lazy =>
                   /\ watchers' = [watchers EXCEPT ![w].dirty = TRUE]
                   /\ NoFramePushed
                   /\ UNCHANGED <<schedVars, tickVars>>
              /\ (~W.lazy /\ W.sync) =>
                   /\ UNCHANGED <<watchers, schedVars, tickVars>>
                   /\ W.active =>
                        /\ stack' # <<>> /\ Tail(stack') \in
                             { Below, << [Top EXCEPT !.rest = Tail(@)] >> \o Below }
                        /\ Head(stack').kind = "get" /\ Head(stack').w = w
                        /\ Head(stack').ret = "run"
              /\ (~W.lazy /\ ~W.sync) =>
                   /\ w \in has' /\ Count(queue', w) >= 1 /\ waiting'
                   /\ NoFramePushed
                   /\ UNCHANGED watchers ]_vars

(* one write has marked the computed watcher dirty, queued a plain watcher *)
(* and started the run() of a sync watcher, which is not in the queue      *)
C12_Witness ==
  /\ stack # <<>> /\ Top.kind = "get" /\ Top.ret = "run"
  /\ watchers[Top.w].sync /\ ~flushing
  /\ queue # <<>> /\ Count(queue, Top.w) = 0 /\ waiting
  /\ computedW # 0 /\ watchers[computedW].dirty
  /\ watchers[computedW].deps # <<>>

(***************************************************************************)
(* C13  A getter that throws during run().  When the get() of a run() ends *)
(* with an error, the error does not leave run(), the callback is not      *)
(* called and the stored value stays what it was.                          *)
(***************************************************************************)
GetThrewInRun ==
  /\ stack # <<>> /\ ~exc
  /\ Top.kind = "get" /\ Top.ret = "run" /\ AtEnd(Top) /\ Top.thrown

C13_Original ==
  [][ GetThrewInRun =>
        /\ ~exc'
        /\ watchers'[Top.w].value = watchers[Top.w].value
        /\ stack' = Below ]_vars

(***************************************************************************)
(* C14  A getter that throws part-way.  When a get() ends with an error,   *)
(* the watcher is afterwards subscribed to exactly the properties the      *)
(* getter read before the throw; for every watcher outside its get(),      *)
(* deps, depIds and the subscriber lists agree; and a write to a property  *)
(* a watcher read in its last get() calls update() on that watcher.        *)
(***************************************************************************)
GetThrew ==
  /\ stack # <<>> /\ ~exc
  /\ Top.kind = "get" /\ AtEnd(Top) /\ Top.thrown

C14_StillSubscribed ==
  [][ /\ GetThrew =>
           /\ Top.rd # {}
           /\ \A c \in Cells : (Count(subs'[c], Top.w) = 1) <=> (c \in Top.rd)
           /\ watchers'[Top.w].depIds = Top.rd
      /\ \A w \in 1..Len(watchers') :
           (\A i \in DOMAIN stack' : ~(stack'[i].kind = "get" /\ stack'[i].w = w))
             => /\ Range(watchers'[w].deps) = watchers'[w].depIds
                /\ \A c \in Cells :
                     Count(subs'[c], w) = (IF c \in watchers'[w].depIds THEN 1 ELSE 0)
                /\ watchers'[w].newDeps = <<>> /\ watchers'[w].newDepIds = {}
      /\ \A c \in Cells : \A w \in Ids :
           (val'[c] # val[c] /\ c \in watchers[w].readSet) =>
             /\ stack' # <<>> /\ Head(stack').kind = "notify"
             /\ Count(Head(stack').rest, w) = 1 ]_vars

(* the watcher of an expression that threw after reading property 1 and    *)
(* before reading property 2 is being notified of a write to property 1    *)
C14_Witness ==
  /\ stack # <<>> /\ Top.kind = "notify"
  /\ \E w \in Ids :
       /\ watchers[w].getter = "rthrow" /\ Head(Top.rest) = w
       /\ watchers[w].deps = <<1>> /\ watchers[w].readSet = {1}
       /\ Count(subs[1], w) = 1 /\ Count(subs[2], w) = 0

(***************************************************************************)
(* C15  A callback that throws is isolated.  When a watch callback ends    *)
(* with an error, run() returns normally into its caller and the scheduler *)
(* is untouched; a flush that reaches its end without the circular-update  *)
(* break has run every watcher of the queue and then resets the scheduler. *)
(* When a handler of a hook ends, with an error or not, the next handler   *)
(* of that hook is called, and after the last one popTarget() is called,   *)
(* which for a hook entered under a target takes the stack back to it.     *)
(***************************************************************************)
CodeEnded(kind) ==
  stack # <<>> /\ ~exc /\ Top.kind = kind /\ AtEnd(Top)

C15_Isolated ==
  [][ /\ (CodeEnded("cb") /\ Top.thrown) =>
           stack' = Below /\ ~exc' /\ UNCHANGED <<schedVars, tickVars>>
      /\ (FlushAt("post") /\ ~exc /\ Top.ret # "break") =>
           /\ \A i \in DOMAIN queue : Count(runs, queue[i]) >= 1
           /\ queue' = <<>> /\ has' = {} /\ ~waiting' /\ ~flushing'
      /\ CodeEnded("hook") =>
           IF Top.rest # <<>>
           THEN /\ stack' = << [Top EXCEPT !.prog = Head(Top.rest),
                                           !.rest = Tail(Top.rest),
                                           !.pc = 1, !.thrown = FALSE] >> \o Below
                /\ UNCHANGED <<target, targetStack>>
           ELSE /\ stack' = Below
                /\ target' = popTarget[1] /\ targetStack' = popTarget[2]
                /\ Top.saved # NoTarget =>
                     /\ Len(targetStack') = Len(targetStack) - 1
                     /\ target' = Top.saved ]_vars

(* a watch callback has thrown in a flush that has more watchers to run,   *)
(* after a render whose hook had a throwing first handler went through     *)
C15_Witness ==
  /\ CodeEnded("cb") /\ Top.thrown
  /\ Below # <<>> /\ Head(Below).kind = "flush" /\ index + 1 < Len(queue)
  /\ renderW # 0 /\ watchers[renderW].getter = "renderH"
  /\ watchers[renderW].deps = <<1, 2>>

(***************************************************************************)
(* C16  Reset before the post-flush hooks.  The step of the flush after    *)
(* its loop empties the queue, clears the marks, waiting and flushing, and *)
(* starts no hook; while the updated hooks run, flushing is false; and a   *)
(* queueWatcher made from an updated hook for a watcher that is not marked *)
(* appends it to the queue, the first one arming nextTick with the flush.  *)
(***************************************************************************)
InPostHook ==
  \E i \in DOMAIN stack : stack[i].kind = "flush" /\ stack[i].phase = "hooks"

C16_ResetBeforeHooks ==
  [][ /\ FlushAt("post") =>
           /\ queue' = <<>> /\ has' = {} /\ ~waiting' /\ ~flushing'
           /\ stack' = Below \/ Head(stack').kind = "flush"
      /\ InPostHook => ~flushing
      /\ ( /\ InPostHook /\ stack # <<>> /\ ~exc /\ Top.kind = "notify"
           /\ update(watchers[Head(Top.rest)]) = "queue"
           /\ Head(Top.rest) \notin has ) =>
           /\ queue' = Append(queue, Head(Top.rest))
           /\ Head(Top.rest) \in has'
           /\ waiting' /\ pending' /\ callbacks' = <<"flush">>
           /\ timers' # <<>>
           /\ queue = <<>> => (~waiting /\ callbacks = <<>>) ]_vars

(* an updated hook has written property 1: its watcher is queued and the   *)
(* next flush is scheduled, while the hook is still running                *)
C16_Witness ==
  /\ InPostHook /\ stack # <<>> /\ Top.kind = "hook" /\ AtEnd(Top)
  /\ queue # <<>> /\ has # {} /\ waiting /\ ~flushing
  /\ pending /\ callbacks = <<"flush">>

(***************************************************************************)
(* C17  A torn-down watcher is never re-run.  Whenever the scheduler or a  *)
(* dep.notify starts the getter of a watcher for a run(), and whenever a   *)
(* run() calls the callback, the watcher is active; a watcher that is      *)
(* inactive when the flush reaches it in the queue is passed over.         *)
(***************************************************************************)
C17_NoRerun ==
  [][ /\ ( /\ stack # <<>> /\ Top.kind \in {"flush", "notify"}
           /\ stack' # <<>> /\ Head(stack').kind = "get" ) =>
           /\ Head(stack').ret = "run"
           /\ watchers[Head(stack').w].active
      /\ ( /\ stack # <<>> /\ Top.kind = "get"
           /\ stack' # <<>> /\ Head(stack').kind = "cb" ) =>
           watchers[Head(stack').w].active
      /\ ( /\ FlushAt("head") /\ index < Len(queue)
           /\ ~watchers[queue[index + 1]].active ) =>
           /\ stack' = << [Top EXCEPT !.phase = "check"] >> \o Below
           /\ UNCHANGED <<watchers, subs, val, target, targetStack>> ]_vars

(* the flush has passed over a watcher that was torn down by the callback  *)
(* of an earlier watcher of the same flush, while it was pending           *)
C17_Witness ==
  /\ FlushAt("check") /\ index >= 1
  /\ ~watchers[queue[index + 1]].active
  /\ runs[Len(runs)] = queue[index + 1]
  /\ watchers[queue[index]].cb = "unwatch2" /\ queue[index + 1] = 2
  /\ ~isBeingDestroyed

(***************************************************************************)
(* C18  teardown().  As stated: a step that makes a watcher inactive       *)
(* leaves it in no subscriber list and not in vm._watchers, and teardown   *)
(* of an inactive watcher changes nothing.                                 *)
(***************************************************************************)
TornDownNow(w) == watchers[w].active /\ ~watchers'[w].active

Unsubscribed(s, w) == \A c \in Cells : Count(s[c], w) = 0

TeardownTwice ==
  /\ \A w \in Ids : \A d \in BOOLEAN :
       /\ teardown(teardown(LifeSt, w, d), w, d) = teardown(LifeSt, w, d)
       /\ ~watchers[w].active => teardown(LifeSt, w, d) = LifeSt
  /\ ( /\ stack # <<>> /\ ~exc /\ Top.kind \in CodeKinds /\ ~AtEnd(Top)
       /\ Prog(Top.prog)[Top.pc][1] = "teardown"
       /\ HasUnwatch(Prog(Top.prog)[Top.pc][2])
       /\ ~watchers[Prog(Top.prog)[Top.pc][2]].active ) =>
       UNCHANGED <<watchers, subs, vmWatchers>>

DestroyAgain ==
  /\ stack # <<>> /\ ~exc /\ Top.kind \in CodeKinds /\ ~AtEnd(Top)
  /\ Prog(Top.prog)[Top.pc][1] = "destroy"
  /\ isBeingDestroyed

C19_Destroyed ==
  [][ /\ (~isBeingDestroyed /\ isBeingDestroyed') =>
           /\ Len(watchers') = Len(watchers)
           /\ \A w \in Ids :
                ~watchers'[w].active /\ Unsubscribed(subs', w)
      /\ destroy(destroy(LifeSt)) = destroy(LifeSt)
      /\ isBeingDestroyed => isBeingDestroyed'
      /\ DestroyAgain =>
           UNCHANGED <<watchers, subs, vmVars, depVars, schedVars, tickVars>> ]_vars

(* a component with a render watcher, a computed watcher and a user        *)
(* watcher, all of them subscribed before, has been destroyed              *)
C19_Witness ==
  /\ isBeingDestroyed /\ Len(watchers) = 3
  /\ renderW # 0 /\ computedW # 0
  /\ \A w \in Ids :
       /\ ~watchers[w].active /\ watchers[w].deps # <<>>
       /\ Unsubscribed(subs, w) /\ Count(vmWatchers, w) = 1

(***************************************************************************)
(* C20  Writing the same value.  An assignment of a value identical to the *)
(* current one (===, or NaN over NaN) changes nothing but the position of  *)
(* the program that made it: the value, the subscriber lists, the watchers *)
(* with their dirty flags, the scheduler and the nextTick state are        *)
(* unchanged and no dep.notify starts.  Any other assignment stores the    *)
(* value and starts dep.notify when the property has subscribers.          *)
(***************************************************************************)
SetOp ==
  /\ stack # <<>> /\ ~exc /\ Top.kind \in CodeKinds /\ ~AtEnd(Top)
  /\ Prog(Top.prog)[Top.pc][1] = "set"

Identical(a, b) == (a = b /\ a # NaN) \/ (a = NaN /\ b = NaN)

C20_SameValueNoOp ==
  [][ SetOp =>
        LET c == Prog(Top.prog)[Top.pc][2]
            v == Prog(Top.prog)[Top.pc][3]
        IN IF Identical(v, val[c])
           THEN /\ stack' = << [Top EXCEPT !.pc = @ + 1] >> \o Below
                /\ UNCHANGED <<val, subs, watchers, target, targetStack,
                               schedVars, tickVars, vmVars>>
           ELSE /\ val' = [val EXCEPT ![c] = v]
                /\ subs[c] # <<>> =>
                     /\ Head(stack').kind = "notify"
                     /\ Head(stack').rest = subs[c] ]_vars

(* a watch callback has assigned NaN to property 2, which held NaN: the    *)
(* subscriber of property 2 has not been queued                            *)
C20_Witness ==
  /\ stack # <<>> /\ Top.kind = "cb" /\ Top.prog = "set2NaN" /\ AtEnd(Top)
  /\ val[2] = NaN /\ flushing
  /\ \E w \in Range(subs[2]) :
       ~watchers[w].lazy /\ ~watchers[w].sync /\ w \notin has

(***************************************************************************)
(* C21  When the callback is called.  A run() whose get() has returned the *)
(* value v stores v and calls the callback exactly when v is not strictly  *)
(* equal to the stored value (NaN never is), or v is an object or array,   *)
(* or the watcher is deep; otherwise the stored value stays and no         *)
(* callback starts.  run() of an inactive watcher starts neither getter    *)
(* nor callback.                                                           *)
(***************************************************************************)
RunReturns ==
  /\ stack # <<>> /\ ~exc /\ Top.kind = "get" /\ Top.ret = "run" /\ AtEnd(Top)
  /\ ~(Top.thrown /\ ~watchers[Top.w].user)

Differs(a, b) == a # b \/ a = NaN \/ b = NaN

CallsUserCb(tag) ==
  stack # <<>> /\ ~exc /\ Top.kind = "tick" /\ Head(Top.rest) = tag

C22_Original ==
  [][ /\ CallsUserCb("after") => (~flushing /\ ~waiting /\ queue = <<>>)
      /\ CallsUserCb("during") => ~flushing
      /\ (~pending /\ Len(callbacks') > Len(callbacks)) =>
           (pending' /\ Len(timers') = Len(timers) + 1) ]_vars

(***************************************************************************)
(* C23  withMacroTask.  A flush that is scheduled while a function wrapped *)
(* by withMacroTask is executing is delivered by the macrotask timer.      *)
(***************************************************************************)
InTask == \E i \in DOMAIN stack : stack[i].kind = "task"

C23_Original ==
  [][ (InTask /\ Count(callbacks', "flush") > Count(callbacks, "flush")) =>
        timers' = <<"macro">> ]_vars

(***************************************************************************)
(* C24  A render function that returns something that is not a single tree *)
(* (an array of roots, any other value that is not a VNode): a diagnostic  *)
(* is reported and the result of the render is the tree rendered before.   *)
(***************************************************************************)
C24_Original ==
  lastRender.out \in {"array", "other"} =>
    (diag # <<>> /\ lastRender.res = lastRender.prev)

(***************************************************************************)
(* Vocabulary of the heap properties: the dep ids in use, and the last     *)
(* Heap call by what it found                                              *)
(***************************************************************************)
PropDeps(O) == {O.prop[k].dep : k \in {j \in Keys : O.prop[j].own /\ O.prop[j].reactive}}
ObDeps(O) == IF O.hasOb THEN {O.obDep} ELSE {}
DepsInUse == UNION {PropDeps(objs[o]) \cup ObDeps(objs[o]) : o \in ObjIds}
OnObservedNonRoot ==
  heapOp.pre.hasOb /\ heapOp.pre.vmCount = 0 /\ ~heapOp.pre.isVue
OnRootOrVm ==
  heapOp.pre.isVue \/ (heapOp.pre.hasOb /\ heapOp.pre.vmCount > 0)
HadKey == heapOp.pre.prop[heapOp.k].own

(***************************************************************************)
(* C25  set(target, key, val) on an observed object that is not root data: *)
(* for a key the object does not have, the object gets a reactive property *)
(* whose dep is a new one that nothing else uses, and notify() is called   *)
(* once, on the dep of the object's observer; for a key it has, the        *)
(* property stays the one it was, the value is assigned through it and     *)
(* notify() is called on no observer's dep.                                *)
(***************************************************************************)
C25_Set ==
  (heapOp.op = "set" /\ OnObservedNonRoot) =>
    LET o == heapOp.o
        k == heapOp.k
        P == objs[o].prop[k]
    IN  IF ~HadKey
        THEN /\ P.own /\ P.reactive /\ P.val = heapOp.v
             /\ P.dep > heapOp.uid
             /\ \A o2 \in ObjIds :
                  /\ P.dep \notin ObDeps(objs[o2])
                  /\ \A k2 \in Keys :
                       (<<o2, k2>> # <<o, k>> /\ objs[o2].prop[k2].own)
                         => objs[o2].prop[k2].dep # P.dep
             /\ notified = << heapOp.pre.obDep >>
        ELSE /\ P.own /\ P.val = heapOp.v
             /\ P.reactive = heapOp.pre.prop[k].reactive
             /\ P.dep = heapOp.pre.prop[k].dep
             /\ objs[o].keys = heapOp.pre.keys
             /\ \A i \in DOMAIN notified :
                  /\ notified[i] = P.dep
                  /\ \A o2 \in ObjIds : notified[i] \notin ObDeps(objs[o2])

(* a computation that read the object is subscribed to its observer's dep  *)
(* when the new key is set                                                  *)
C25_Witness ==
  /\ heapOp.op = "set" /\ OnObservedNonRoot /\ ~HadKey
  /\ stack # <<>> /\ Top.kind = "notify" /\ Top.pc = 1
  /\ Top.rest = subs[heapOp.pre.obDep]

(***************************************************************************)
(* C26  del(target, key).  On an observed object that is not root data an  *)
(* own property is removed and notify() is called once, on the dep of the  *)
(* object's observer; a key that is not an own property leaves the object  *)
(* as it was and notifies nothing.  On a component instance or a root data *)
(* object del, and set of a key the object does not have, warn and leave   *)
(* the object as it was, with no dep created and nothing notified.         *)
(***************************************************************************)
C26_Del ==
  LET o == heapOp.o
      k == heapOp.k
  IN  /\ (heapOp.op = "del" /\ OnObservedNonRoot /\ HadKey) =>
           /\ ~objs[o].prop[k].own
           /\ objs[o] = [heapOp.pre EXCEPT !.prop[k] = NoProp,
                                           !.keys = RemoveFirst(@, k)]
           /\ notified = << heapOp.pre.obDep >>
           /\ diag = <<>>
      /\ (heapOp.op = "del" /\ OnObservedNonRoot /\ ~HadKey) =>
           (objs[o] = heapOp.pre /\ notified = <<>> /\ depUid = heapOp.uid)
      /\ ( /\ OnRootOrVm
           /\ heapOp.op = "del" \/ (heapOp.op = "set" /\ ~HadKey) ) =>
           /\ objs[o] = heapOp.pre /\ notified = <<>> /\ depUid = heapOp.uid
           /\ Len(diag) = 1

(* a computation that read the object is notified of the deletion *)
C26_Witness ==
  /\ heapOp.op = "del" /\ OnObservedNonRoot /\ HadKey
  /\ stack # <<>> /\ Top.kind = "notify" /\ Top.pc = 1
  /\ Top.rest = subs[heapOp.pre.obDep]

(***************************************************************************)
(* C27  observe(value) of a value that has an observer.  An observer, once *)
(* made, stays the observer of its object (one observer for each object,   *)
(* whatever is observed afterwards), and a call of observe on an observed  *)
(* value creates no dep and changes no subscription.  C27_Original: the    *)
(* call leaves every object and observer as it was.  C27_Amended: as it    *)
(* was, but for vmCount of the observer, which a call with asRootData      *)
(* increments.                                                             *)
(***************************************************************************)
ObserveAgain(o) ==
  /\ heapOp'.n # heapOp.n /\ heapOp'.op \in {"observe", "observeRoot"}
  /\ heapOp'.o = o /\ objs[o].hasOb

ObserverKept ==
  \A o \in ObjIds :
    objs[o].hasOb => (objs'[o].hasOb /\ objs'[o].obDep = objs[o].obDep)

C27_Original ==
  [][ /\ ObserverKept
      /\ \A o \in ObjIds : ObserveAgain(o) =>
           (depUid' = depUid /\ subs' = subs /\ objs' = objs) ]_vars

C27_Amended ==
  [][ /\ ObserverKept
      /\ \A o \in ObjIds : ObserveAgain(o) =>
           /\ depUid' = depUid /\ subs' = subs
           /\ objs' = [objs EXCEPT ![o].vmCount =
                         IF heapOp'.op = "observeRoot" THEN @ + 1 ELSE @] ]_vars

(* a data object that is root data already becomes root data once more *)
C27_Witness ==
  /\ heapOp.op = "observeRoot" /\ heapOp.pre.hasOb /\ heapOp.pre.vmCount = 1
  /\ objs[heapOp.o].vmCount = 2 /\ objs[heapOp.o].obDep = heapOp.pre.obDep

(***************************************************************************)
(* C28  What a read subscribes to.  A statement that reads the reactive    *)
(* property P while a computation is active leaves the computation         *)
(* subscribed to every dep of a set, and changes the subscribers of no     *)
(* other dep; with no computation active it changes no subscription.       *)
(* C28_Original: the set is the dep of P, the dep of the observer of P's   *)
(* value when the value is observed and, when the value is an array, the   *)
(* deps of the observers of the observed elements of it and of the arrays  *)
(* nested in it.  C28_Amended: the elements count only when the array      *)
(* itself is observed.                                                     *)
(***************************************************************************)
ReadsProp ==
  /\ stack # <<>> /\ ~exc /\ Top.kind \in CodeKinds /\ ~AtEnd(Top)
  /\ Prog(Top.prog)[Top.pc][1] = "get"
PropRead == objs[Prog(Top.prog)[Top.pc][2]].prop[Prog(Top.prog)[Top.pc][3]]

(* the array a and the arrays nested in it, to the depth n *)
RECURSIVE NestedArrays(_, _)
NestedArrays(S, n) ==
  IF n = 0 THEN S
  ELSE NestedArrays(S \cup {e \in ObjIds : /\ objs[e].isArray
                                           /\ \E a \in S : Ref(e) \in Range(objs[a].items)},
                    n - 1)
ElementObDeps(a) ==
  UNION { ObDeps(objs[e]) : e \in {e \in ObjIds :
            \E b \in NestedArrays({a}, NObjs) : Ref(e) \in Range(objs[b].items)} }
ValueObDeps(v) == IF IsObject(v) THEN ObDeps(objs[ObjOf(v)]) ELSE {}
IsArrayValue(v) == IsObject(v) /\ objs[ObjOf(v)].isArray

SubscribesTo(D) ==
  /\ \A d \in D : /\ target \in Range(subs'[d])
                  /\ d \in watchers'[target].newDepIds
  /\ \A d \in Deps \ D : subs'[d] = subs[d]
  /\ watchers'[target].newDepIds \ watchers[target].newDepIds \subseteq D

C28_Original ==
  [][ (ReadsProp /\ PropRead.own /\ PropRead.reactive) =>
        IF target = NoTarget THEN subs' = subs /\ watchers' = watchers
        ELSE SubscribesTo({PropRead.dep} \cup ValueObDeps(PropRead.val)
                          \cup (IF IsArrayValue(PropRead.val)
                                THEN ElementObDeps(ObjOf(PropRead.val))
                                ELSE {})) ]_vars

C28_Amended ==
  [][ (ReadsProp /\ PropRead.own /\ PropRead.reactive) =>
        IF target = NoTarget THEN subs' = subs /\ watchers' = watchers
        ELSE SubscribesTo({PropRead.dep} \cup ValueObDeps(PropRead.val)
                          \cup (IF /\ IsArrayValue(PropRead.val)
                                   /\ objs[ObjOf(PropRead.val)].hasOb
                                THEN ElementObDeps(ObjOf(PropRead.val))
                                ELSE {})) ]_vars

(* the getter has read data.q, an observed array with an array in it: it   *)
(* is subscribed to q, to the array, to the inner array and to the object  *)
(* in the inner array                                                      *)
C28_Witness ==
  /\ stack # <<>> /\ Top.kind = "get" /\ Top.prog = "gq" /\ AtEnd(Top)
  /\ target = Top.w
  /\ objs[1].prop["q"].reactive /\ objs[3].hasOb /\ objs[4].hasOb /\ objs[2].hasOb
  /\ watchers[Top.w].newDepIds =
       {objs[1].prop["q"].dep, objs[3].obDep, objs[4].obDep, objs[2].obDep}
  /\ \A d \in watchers[Top.w].newDepIds : Top.w \in Range(subs[d])

(***************************************************************************)
(* C29  Per-property isolation.  An assignment obj[key] = val by user code *)
(* leaves alone every computation that is not subscribed to the dep of the *)
(* property written (all of them when the property was never made          *)
(* reactive): it is in no notify() the assignment starts, and the          *)
(* assignment itself changes no watcher and no queue.  A computation is    *)
(* put on the queue only by the notify() of a dep it is subscribed to.     *)
(***************************************************************************)
Assigns ==
  heapOp'.n # heapOp.n /\ heapOp'.op = "assign"
NotSubscribedTo(w, P) ==
  ~(P.own /\ P.reactive) \/ P.dep \notin watchers[w].depIds
InNotify(w) ==
  \E i \in DOMAIN stack' :
    stack'[i].kind = "notify" /\ w \in Range(stack'[i].rest)

C29_Isolated ==
  [][ /\ Assigns =>
           /\ watchers' = watchers /\ subs' = subs /\ queue' = queue
           /\ \A w \in Ids :
                NotSubscribedTo(w, objs[heapOp'.o].prop[heapOp'.k]) => ~InNotify(w)
      /\ \A w \in Ids :
           Count(queue', w) > Count(queue, w) =>
             /\ stack # <<>> /\ Top.kind = "notify"
             /\ w \in Range(Top.rest)
             /\ \E i \in DOMAIN notified : notified[i] \in watchers[w].depIds ]_vars

(* state.y, a reactive property, was assigned a new value: the computation *)
(* that read state.y is being notified, the one that read only state.x is  *)
(* not                                                                     *)
C29_Witness ==
  /\ heapOp.op = "assign" /\ heapOp.o = 2 /\ heapOp.k = "y"
  /\ heapOp.pre.prop["y"].reactive /\ objs[2].prop["x"].reactive
  /\ notified = << heapOp.pre.prop["y"].dep >>
  /\ stack # <<>> /\ Top.kind = "notify" /\ Top.pc = 1 /\ queue = <<>>
  /\ \E w, u \in Ids :
       /\ watchers[w].getter = "g2x" /\ watchers[u].getter = "g2y"
       /\ watchers[w].depIds = {objs[2].prop["x"].dep}
       /\ Top.rest = <<u>>

(***************************************************************************)
(* C30  Keyed reordering.  updateChildren of the old children with the     *)
(* keys 1, 2, 3 (A, B, C) and the new children with the keys 3, 1, 2, when *)
(* it has returned: the platform children are the three nodes that were    *)
(* there, in the order C, A, B; no node was created, none removed; nodes   *)
(* were only moved.                                                        *)
(***************************************************************************)
PatchDone == patch.oldStart > patch.oldEnd /\ patch.newStart > patch.newEnd

C30_Reorder ==
  (patch.oldCh0 = <<1, 2, 3>> /\ patch.newCh = <<3, 1, 2>> /\ PatchDone) =>
    /\ patch.children = <<3, 1, 2>>
    /\ patch.created = 0 /\ patch.removed = 0 /\ patch.moved >= 1

C30_Witness ==
  /\ patch.oldCh0 = <<1, 2, 3>> /\ patch.newCh = <<3, 1, 2>> /\ PatchDone
  /\ patch.children = <<3, 1, 2>> /\ patch.moved = 1

(***************************************************************************)
(* C31  updateChildren is correct for every pair of lists of distinct keys *)
(* (up to MaxChildren keys of 1..MaxKey).  It returns, and when it has     *)
(* returned the platform children are the nodes of the new children in     *)
(* their order, where a key that the old list has keeps the node it had    *)
(* and the other keys have a created node; the create calls are as many as *)
(* the keys only the new list has, the remove calls as many as the keys    *)
(* only the old list has.                                                  *)
(***************************************************************************)
PatchResult ==
  /\ Len(patch.children) = Len(patch.newCh)
  /\ \A i \in DOMAIN patch.newCh :
       patch.children[i] =
         IF patch.newCh[i] \in Range(patch.oldCh0) THEN patch.newCh[i]
         ELSE Created(patch.newCh[i])
  /\ patch.created = Cardinality(Range(patch.newCh) \ Range(patch.oldCh0))
  /\ patch.removed = Cardinality(Range(patch.oldCh0) \ Range(patch.newCh))

RunningInFlush(w) ==
  \E i \in DOMAIN stack :
    /\ i < Len(stack) /\ stack[i + 1].kind = "flush"
    /\ stack[i].w = w
    /\ (stack[i].kind = "get" /\ stack[i].ret = "run") \/ stack[i].kind = "cb"

C32_Original == \A w \in Ids : RunningInFlush(w) => w \in has

C32_Amended ==
  \A w \in Ids : RunningInFlush(w) =>
    (w \in has <=> \E j \in (index + 2)..Len(queue) : queue[j] = w)

(* the running watcher has written a property it reads and is queued again *)
C32_Witness ==
  \E w \in Ids : /\ RunningInFlush(w) /\ w \in has
                 /\ queue[index + 1] = w /\ Count(queue, w) = 2


(***************************************************************************)
(* C33: once a flush has ended, for whatever reason (its loop completed,   *)
(* the cycle guard broke out of it, or an exception left run()), the       *)
(* scheduler is idle: waiting and flushing are false, the queue is empty   *)
(* and no watcher is marked pending.  A flush has ended when no flush is   *)
(* executing, none is registered with nextTick and no exception is in      *)
(* flight.                                                                 *)
(***************************************************************************)
FlushExecuting == \E i \in DOMAIN stack : stack[i].kind = "flush"

SchedulerIdle ==
  /\ ~waiting /\ ~flushing
  /\ queue = <<>> /\ has = {}

C33_Original ==
  (~FlushExecuting /\ FlushesOutstanding = 0 /\ ~exc) => SchedulerIdle


-----------------------------------------------------------------------------
(***************************************************************************)
(* The same program with watchers only, none of which throws or re-enqueues *)
(* itself: the callback of one tears the third watcher down and writes      *)
(* property 2 while the queue is being flushed.                             *)
(***************************************************************************)
QueueTemplates ==
  { <<"r1", "un3w2">>, <<"r2", "noop">>, <<"r1", "noop">> }

NextQueue ==
  \/ \E tpl \in QueueTemplates : Watch(tpl)
  \/ \E c \in Cells : UserWrite(c)
  \/ TimerFire
  \/ CodeStep
  \/ CodeLifeStep
  \/ GetFinally
  \/ CbEnd
  \/ NotifyStep
  \/ TickStep
  \/ FlushStep
  \/ FlushPost

SpecQueue == Init /\ [][NextQueue]_vars

(* The JavaScript engine runs the code on the stack to completion and the  *)
(* event loop runs every task and microtask that was registered; only the  *)
(* calls of user code from outside (vm.$watch, assignments) may never come. *)
(* A script of user code is finite, so that a registered timer, which can   *)
(* fire whenever no code is running, is not postponed for ever              *)
EngineStep ==
  \/ TimerFire
  \/ CodeStep
  \/ CodeLifeStep
  \/ GetFinally
  \/ CbEnd
  \/ NotifyStep
  \/ TickStep
  \/ FlushStep
  \/ FlushPost

SpecQueueLive == SpecQueue /\ WF_vars(EngineStep) /\ SF_vars(TimerFire)

(***************************************************************************)
(* C34: no lost update, when no run() throws and the cycle ceiling is not  *)
(* reached.  A watcher accepted by queueWatcher (marked in has) waits in   *)
(* the queue at a position the flush loop has not passed; at the moment    *)
(* resetSchedulerState is about to run, run() has been called for every    *)
(* entry of the queue, in order (run() itself skips a watcher that was     *)
(* torn down); while the queue is not empty a flush is registered with     *)
(* nextTick or executing; and every accepted watcher eventually has its    *)
(* run() called.                                                           *)
(***************************************************************************)
AtReset ==
  /\ stack # <<>> /\ Top.kind = "flush" /\ Top.phase = "post"
  /\ Top.ret # "break"

RunCalled(w) == runs # <<>> /\ runs[Len(runs)] = w

C34_Queued ==
  /\ \A w \in has :
       \E j \in DOMAIN queue : queue[j] = w /\ (flushing => j > index)
  /\ AtReset => (runs = queue /\ index = Len(queue))
  /\ queue # <<>> => (FlushesOutstanding = 1 \/ FlushExecuting)

C34_NoLostUpdate ==
  /\ []C34_Queued
  /\ \A w \in 1..MaxWatchers : (w \in has) ~> RunCalled(w)

(* a flush about to reset: it ran a watcher accepted while it was flushing *)
(* and skipped one that a callback had torn down                           *)
C34_Witness ==
  /\ AtReset /\ runs = queue
  /\ \E w \in flushQueued : \E j \in DOMAIN runs : runs[j] = w
  /\ \E j \in DOMAIN runs : ~watchers[runs[j]].active


(***************************************************************************)
(* C35: dependency collection is disabled while a lifecycle hook handler   *)
(* executes: a step of the handler's body subscribes no watcher to any     *)
(* property and records no dependency, also when the hook was called from  *)
(* inside a watcher's getter and also after the handler has read a         *)
(* computed property.                                                      *)
(***************************************************************************)
InHookBody == stack # <<>> /\ ~exc /\ Top.kind = "hook"

(* computedGetter returning into the handler that read the property: after *)
(* evaluate() it calls watcher.depend() when Dep.target is set             *)
ComputedReturnsToHook ==
  /\ Len(stack) >= 2 /\ ~exc
  /\ Top.kind = "get" /\ Top.ret = "evaluate" /\ AtEnd(Top)
  /\ stack[2].kind = "hook"

C35_Original ==
  [][ (InHookBody \/ ComputedReturnsToHook) =>
        \A w \in Ids \ {Top.w} :
          /\ watchers'[w].newDepIds = watchers[w].newDepIds
          /\ \A c \in Cells : w \in Range(subs'[c]) => w \in Range(subs[c])
    ]_vars


(***************************************************************************)
(* C36: once teardown() has been called for a watcher (it is inactive),    *)
(* the watcher is in no property's subscriber list, whatever follows,      *)
(* a read of the computed property whose lazy watcher was still dirty      *)
(* included.                                                               *)
(***************************************************************************)
C36_Original ==
  \A w \in Ids : ~watchers[w].active => Unsubscribed(subs, w)


(***************************************************************************)
(* C37: consistency of the subscription graph.  Whenever no getter is      *)
(* executing, for every active watcher W and every dep D: W is in D.subs   *)
(* exactly when D is in W.deps, the ids of W.deps are W.depIds, W occurs   *)
(* at most once in D.subs, and W.newDeps and W.newDepIds are empty.        *)
(***************************************************************************)
NoGetterExecuting == \A i \in DOMAIN stack : stack[i].kind # "get"

C37_Consistent ==
  NoGetterExecuting =>
    \A w \in Ids : watchers[w].active =>
      /\ \A d \in DOMAIN subs :
           /\ (w \in Range(subs[d])) <=> (d \in Range(watchers[w].deps))
           /\ Count(subs[d], w) <= 1
      /\ Range(watchers[w].deps) = watchers[w].depIds
      /\ watchers[w].newDeps = <<>> /\ watchers[w].newDepIds = {}

(* the flush has re-run a watcher whose getter reads property 2 only while  *)
(* property 1 is 0: it subscribes to property 1 and not to property 2,      *)
(* which another watcher subscribes to                                      *)
C37_Witness ==
  /\ FlushAt("check") /\ NoGetterExecuting
  /\ \E w \in Ids :
       /\ runs[Len(runs)] = w /\ watchers[w].active
       /\ watchers[w].getter = "branch"
       /\ watchers[w].deps = <<1>> /\ Unsubscribed(subs, w) = FALSE
       /\ w \notin Range(subs[2])
       /\ \E v \in Ids : v # w /\ w \in Range(subs[1]) /\ v \in Range(subs[2])


(***************************************************************************)
(* C38: the callbacks given to nextTick are each invoked once, in the      *)
(* order of their registration: when the timer fires the batch is the      *)
(* whole callbacks list, in order, and the list is emptied; the batch loses *)
(* its first callback each time one is invoked and changes in no other way, *)
(* so a callback registered while the batch is executing is not part of it: *)
(* it is appended to the callbacks list, and a new timer is armed unless    *)
(* one is pending.  Whenever the callbacks list is not empty, pending is    *)
(* set and a timer is outstanding.                                          *)
(***************************************************************************)
Batch ==
  IF stack # <<>> /\ stack[Len(stack)].kind = "tick"
  THEN stack[Len(stack)].rest ELSE <<>>

C38_Ticks ==
  [][ LET fires == Len(timers') < Len(timers)
      IN /\ fires => /\ Batch = <<>> /\ Batch' = callbacks
                     /\ callbacks' = <<>> /\ ~pending'
         /\ (~fires /\ Batch' # Batch) =>
              /\ Top.kind = "tick" /\ ~exc
              /\ Batch' = Tail(Batch)
              /\ Head(Batch) = "flush" => Head(stack').kind = "flush"
         /\ (~fires /\ callbacks' # callbacks) =>
              /\ \E tag \in {"flush", "user", "during", "after"} :
                   callbacks' = Append(callbacks, tag)
              /\ Batch' = Batch
              /\ pending'
              /\ IF pending THEN timers' = timers
                 ELSE Len(timers') = Len(timers) + 1
         /\ callbacks' # <<>> => (pending' /\ Len(timers') = 1) ]_vars

(* a callback was registered while a batch of two was executing: it waits  *)
(* in the callbacks list for the timer that was armed for it               *)
C38_Witness ==
  /\ Len(Batch) = 1 /\ stack[Len(stack)].kind = "tick"
  /\ callbacks = <<"during">> /\ pending /\ Len(timers) = 1
  /\ flushing


(***************************************************************************)
(* C39: a watcher whose getter has read the computed property is           *)
(* subscribed to every property the computed watcher depends on.  When     *)
(* such a property is written, update() of the computed watcher only sets  *)
(* dirty: its value and deps are left as they are and no getter is called; *)
(* update() of a reader that is neither lazy nor sync puts it in the       *)
(* queue, and the flush calls the getter of every active watcher of the    *)
(* queue, without looking at the value of the computed property.           *)
(***************************************************************************)
LazyReaders == {"rsum", "renderSum"}

Executing(w) == \E i \in DOMAIN stack : stack[i].kind = "get" /\ stack[i].w = w

ReadLazy(w) ==
  /\ w # computedW /\ watchers[w].active
  /\ watchers[w].getter \in LazyReaders
  /\ ComputedDeps \cap watchers[w].readSet # {}

ReadersSubscribed ==
  \A w \in Ids : (ReadLazy(w) /\ ~Executing(w)) =>
    \A d \in ComputedDeps : w \in Range(subs[d])

Notified(w) ==
  stack # <<>> /\ ~exc /\ Top.kind = "notify" /\ Head(Top.rest) = w

C39_Lazy ==
  [][ /\ ReadersSubscribed'
      /\ \A w \in Ids :
           /\ (Notified(w) /\ watchers[w].lazy) =>
                /\ watchers' = [watchers EXCEPT ![w].dirty = TRUE]
                /\ \A i \in DOMAIN stack' : stack'[i].kind # "get"
                /\ UNCHANGED <<subs, queue, has>>
           /\ (Notified(w) /\ ~watchers[w].lazy /\ ~watchers[w].sync) =>
                /\ w \in has' /\ w \in Range(queue')
                /\ UNCHANGED watchers
           /\ ( /\ FlushAt("head") /\ index < Len(queue)
                /\ queue[index + 1] = w /\ watchers[w].active ) =>
                /\ Head(stack').kind = "get" /\ Head(stack').w = w
                /\ Head(stack').ret = "run" ]_vars

(* the flush has re-run a reader of the computed property, which was       *)
(* re-evaluated to the value it had before: the reader's getter returns    *)
(* the value the reader has stored                                         *)
C39_Witness ==
  /\ Len(stack) >= 2 /\ Top.kind = "get" /\ Top.ret = "run" /\ AtEnd(Top)
  /\ stack[2].kind = "flush"
  /\ ReadLazy(Top.w) /\ watchers[Top.w].getter = "rsum"
  /\ computedUse.calls = 1 /\ ~watchers[computedW].dirty
  /\ Top.acc = watchers[Top.w].value
  /\ watchers[computedW].value = Top.acc


(***************************************************************************)
(* C40  A render function that throws.  As claimed: the error is reported  *)
(* to the error handler and the result of _render is the tree rendered     *)
(* before (vm._vnode); an empty placeholder is the result only when there  *)
(* is no tree rendered before.                                             *)
(***************************************************************************)
Reported(r) == \E i \in DOMAIN diag : diag[i] = r

C40_Original ==
  lastRender.out = "throw" =>
    /\ Reported("handleError render")
    /\ lastRender.res = (IF lastRender.prev = "null" THEN "empty"
                         ELSE lastRender.prev)

(***************************************************************************)
(* C40 (amended)  A render function that throws: the error is reported to  *)
(* the error handler.  Without a renderError option, or when renderError   *)
(* throws too (its error is reported as well), the result of _render is    *)
(* the tree rendered before, and an empty placeholder when there is none.  *)
(* With a renderError option that returns, the result is the tree it       *)
(* returns, and an empty placeholder when it returns no tree.  After the   *)
(* render no exception is in flight.                                       *)
(***************************************************************************)
C40_Amended ==
  lastRender.out = "throw" =>
    /\ Reported("handleError render")
    /\ ~exc
    /\ IF renderErrorOpt \in {"none", "throw"}
       THEN /\ lastRender.res = (IF lastRender.prev = "null" THEN "empty"
                                 ELSE lastRender.prev)
            /\ Reported("handleError renderError") <=> renderErrorOpt = "throw"
       ELSE /\ lastRender.res = (IF IsVNode(renderErrorOpt) THEN renderErrorOpt
                                 ELSE "empty")
            /\ ~Reported("handleError renderError")

(* the render function threw after the tree t2 had been rendered: without  *)
(* a renderError option the result is t2                                   *)
C40_Witness ==
  /\ lastRender.out = "throw" /\ lastRender.prev = "t2"
  /\ renderErrorOpt = "none" /\ vmVnode = "t2"
  /\ diag = <<"handleError render">>

=============================================================================
